---------------------------- MODULE Spec2Model ----------------------------
(***************************************************************************)
(* A model of the markdown question parser of gen-hyre-csv                 *)
(* (src/parse_md_questions.py): main() runs parse_questions_from_file on   *)
(* every file, which normalises the text, splits it into blocks, discards  *)
(* section headers and hands every other block to parse_single_question.   *)
(*                                                                         *)
(* Text is a sequence of lexemes.  A lexeme is one character ("1", ".",    *)
(* "*", " ", "\n", ...) or a maximal run of letters (a word).  The regular *)
(* expressions of the source test a word only as a whole (Answer,          *)
(* Solution, Options, a single option letter) or through a property of its *)
(* characters (length, case, digits, containing a keyword), which WordInfo *)
(* records for every word of the vocabulary.                               *)
(***************************************************************************)
EXTENDS Integers, Sequences, FiniteSets, TLC

\* main() and the parser of src/parse_md_questions.py
VARIABLES files, f, results, pc, parts, p, questions,
          lines, i, question_lines, question_text, options, question

\* whether the upload collaborator of base_img_s3 would succeed, and the
\* rows of the CSV file that write_to_csv is writing or has written
VARIABLES upload_ok, csv

\* Pipeline.process_batch of new-ai-converter (core/pipeline.py)
VARIABLES parallel_workers, batch_files, tasks, batch_results,
          successful, failed, batch_pc, pipeline_result

parserVars == <<files, f, results, pc, parts, p, questions,
                lines, i, question_lines, question_text, options, question>>

\* RetryHandler.execute of new-ai-converter (utils/retry.py)
VARIABLES max_retries, attempt, invocations, last_error, retry_pc, outcome

retryVars == <<max_retries, attempt, invocations, last_error, retry_pc,
               outcome>>

batchVars == <<parallel_workers, batch_files, tasks, batch_results,
               successful, failed, batch_pc, pipeline_result>>

vars == <<parserVars, upload_ok, csv, batchVars, retryVars>>

----------------------------------------------------------------------------
(* Characters and words *)

NL == "\n"
SP == " "
BS == "\\"

Digit == {"0", "1", "2", "3", "4", "5", "6", "7", "8", "9"}

\* \s of the regular expressions, str.strip() and str.split()
IsSpace(c) == c \in {SP, NL}

\* [A-E] of the option patterns
OptionLetter == {"A", "B", "C", "D", "E"}

\* [A-E] under re.IGNORECASE
OptionLetterAnyCase == OptionLetter \cup {"a", "b", "c", "d", "e"}

\* Per word: its number of characters, of uppercase and of lowercase
\* characters, and the word in lowercase.
W(n, u, l, low) == [len |-> n, upper |-> u, lower |-> l, fold |-> low]

WordInfo ==
    ("What" :> W(4, 1, 3, "what")) @@ ("is" :> W(2, 0, 2, "is")) @@
    ("Basic" :> W(5, 1, 4, "basic")) @@ ("addition" :> W(8, 0, 8, "addition")) @@
    ("The" :> W(3, 1, 2, "the")) @@ ("sequence" :> W(8, 0, 8, "sequence")) @@
    ("decimal" :> W(7, 0, 7, "decimal")) @@
    ("QUANTITATIVE" :> W(12, 12, 0, "quantitative")) @@
    ("APTITUDE" :> W(8, 8, 0, "aptitude")) @@
    ("Yes" :> W(3, 1, 2, "yes")) @@ ("No" :> W(2, 1, 1, "no")) @@
    ("Answer" :> W(6, 1, 5, "answer")) @@ ("answer" :> W(6, 0, 6, "answer")) @@
    ("ANSWER" :> W(6, 6, 0, "answer")) @@
    ("Solution" :> W(8, 1, 7, "solution")) @@
    ("solution" :> W(8, 0, 8, "solution")) @@
    ("Explanation" :> W(11, 1, 10, "explanation")) @@
    ("Options" :> W(7, 1, 6, "options")) @@
    ("options" :> W(7, 0, 7, "options")) @@
    ("br" :> W(2, 0, 2, "br")) @@ ("BR" :> W(2, 2, 0, "br")) @@
    ("test" :> W(4, 0, 4, "test")) @@
    ("should" :> W(6, 0, 6, "should")) @@
    ("neither" :> W(7, 0, 7, "neither")) @@
    ("depend" :> W(6, 0, 6, "depend")) @@
    ("img" :> W(3, 0, 3, "img")) @@
    ("data:image/" :> W(11, 0, 9, "data:image/")) @@
    ("png;base64,aaaa" :> W(15, 0, 13, "png;base64,aaaa")) @@
    ("http://u" :> W(8, 0, 5, "http://u")) @@
    ("A" :> W(1, 1, 0, "a")) @@ ("B" :> W(1, 1, 0, "b")) @@
    ("C" :> W(1, 1, 0, "c")) @@ ("D" :> W(1, 1, 0, "d")) @@
    ("E" :> W(1, 1, 0, "e")) @@ ("X" :> W(1, 1, 0, "x")) @@
    ("a" :> W(1, 0, 1, "a")) @@ ("b" :> W(1, 0, 1, "b")) @@
    ("c" :> W(1, 0, 1, "c")) @@ ("d" :> W(1, 0, 1, "d")) @@
    ("e" :> W(1, 0, 1, "e")) @@ ("n" :> W(1, 0, 1, "n"))

IsWord(c) == c \in DOMAIN WordInfo

CharLen(c) == IF IsWord(c) THEN WordInfo[c].len ELSE 1
UpperCount(c) == IF IsWord(c) THEN WordInfo[c].upper ELSE 0
LowerCount(c) == IF IsWord(c) THEN WordInfo[c].lower ELSE 0
Fold(c) == IF IsWord(c) THEN WordInfo[c].fold ELSE c

\* \w of the regular expressions: what \b tells apart from the rest
IsWordChar(c) == IsWord(c) \/ c \in Digit \/ c = "_"

----------------------------------------------------------------------------
(* Strings *)

Min(a, b) == IF a < b THEN a ELSE b
Max(a, b) == IF a > b THEN a ELSE b

\* s[a..b], empty when b < a
Slice(s, a, b) == SubSeq(s, a, b)

\* the text from position a on
From(s, a) == SubSeq(s, a, Len(s))

\* whether the lexemes w stand in s from position a on
At(s, a, w) ==
    /\ a >= 1
    /\ a + Len(w) - 1 <= Len(s)
    /\ \A k \in 1..Len(w) : s[a + k - 1] = w[k]

\* the literal word of a pattern, compared as re.IGNORECASE does
AtFold(s, a, low) == a >= 1 /\ a <= Len(s) /\ Fold(s[a]) = low

\* the first position from a on that holds no white space (\s*)
RECURSIVE SkipSpace(_, _)
SkipSpace(s, a) ==
    IF a <= Len(s) /\ IsSpace(s[a]) THEN SkipSpace(s, a + 1) ELSE a

\* the first position from a on that holds no digit (\d*)
RECURSIVE SkipDigits(_, _)
SkipDigits(s, a) ==
    IF a <= Len(s) /\ s[a] \in Digit THEN SkipDigits(s, a + 1) ELSE a

\* the last position down from b that holds no white space
RECURSIVE BackSpace(_, _)
BackSpace(s, b) ==
    IF b >= 1 /\ IsSpace(s[b]) THEN BackSpace(s, b - 1) ELSE b

\* str.strip()
Strip(s) == Slice(s, SkipSpace(s, 1), BackSpace(s, Len(s)))

\* the least k in a..b with P(k), 0 when there is none
First(P(_), a, b) ==
    LET S == {k \in a..b : P(k)}
    IN  IF S = {} THEN 0 ELSE CHOOSE k \in S : \A j \in S : k <= j

\* the position of the first c in s from a on, Len(s) + 1 when there is none
Find(s, a, c) ==
    LET m == First(LAMBDA k : s[k] = c, a, Len(s))
    IN  IF m = 0 THEN Len(s) + 1 ELSE m

\* str.split('\n'): the lines of s, at least one
RECURSIVE SplitLines(_)
SplitLines(s) ==
    LET n == Find(s, 1, NL)
    IN  IF n > Len(s) THEN <<s>>
        ELSE <<Slice(s, 1, n - 1)>> \o SplitLines(From(s, n + 1))

\* sep.join(ss)
RECURSIVE Join(_, _)
Join(ss, sep) ==
    IF ss = <<>> THEN <<>>
    ELSE IF Len(ss) = 1 THEN ss[1]
    ELSE ss[1] \o sep \o Join(Tail(ss), sep)

\* str.split(): the maximal runs without white space
RECURSIVE SplitWords(_)
SplitWords(s) ==
    LET a == SkipSpace(s, 1)
        b == Min(Find(s, a, SP), Find(s, a, NL))
    IN  IF a > Len(s) THEN <<>>
        ELSE <<Slice(s, a, b - 1)>> \o SplitWords(From(s, b))

\* re.sub(pattern, repl, s): MatchEnd(s, a) is the position after the match
\* of the pattern that starts at a, 0 when none starts there; Repl(s, a, b)
\* replaces the match s[a..b-1].  Matches are taken leftmost and do not
\* overlap; no pattern of the source matches the empty string.
\* re.search(pattern, s): the first position from a on where a match
\* starts, 0 if none
ReSearch(MatchEnd(_, _), s, a) ==
    First(LAMBDA k : MatchEnd(s, k) # 0, a, Len(s))

RECURSIVE ReSub(_, _, _, _)
ReSub(MatchEnd(_, _), Repl(_, _, _), s, a) ==
    LET m == ReSearch(MatchEnd, s, a)
    IN  IF m = 0 THEN From(s, a)
        ELSE Slice(s, a, m - 1) \o Repl(s, m, MatchEnd(s, m))
             \o ReSub(MatchEnd, Repl, s, MatchEnd(s, m))

----------------------------------------------------------------------------
(* parse_questions_from_file: the text before it is split *)

\* a parser that leaves escaped dots as they are
UnescapeNothing(s) == s

\* content.replace(r'\.', '.')
UnescapeEnd(s, a) == IF At(s, a, <<BS, ".">>) THEN a + 2 ELSE 0
UnescapeRepl(s, a, b) == <<".">>
Unescape(s) == ReSub(UnescapeEnd, UnescapeRepl, s, 1)

\* re.sub(r'<\s*br\s*/?>', '\n', content, flags=re.IGNORECASE)
BrEnd(s, a) ==
    IF a <= Len(s) /\ s[a] = "<"
    THEN LET b == SkipSpace(s, a + 1)
             c == SkipSpace(s, b + 1)
             d == IF c <= Len(s) /\ s[c] = "/" THEN c + 1 ELSE c
         IN  IF AtFold(s, b, "br") /\ d <= Len(s) /\ s[d] = ">"
             THEN d + 1 ELSE 0
    ELSE 0
BrRepl(s, a, b) == <<NL>>
BrToNewline(s) == ReSub(BrEnd, BrRepl, s, 1)

\* the match of (\*\*)?\bexplanation\b(\*\*)?\s*:\s* that starts at a, as
\* [g1, g2, end], end = 0 when there is none
ExplanationMatch(s, a) ==
    LET g1 == At(s, a, <<"*", "*">>)
        w  == IF g1 THEN a + 2 ELSE a
        e  == w + 1
        g2 == At(s, e, <<"*", "*">>)
        c  == SkipSpace(s, IF g2 THEN e + 2 ELSE e)
    IN  IF /\ AtFold(s, w, "explanation")
           /\ (w = 1 \/ ~IsWordChar(s[w - 1]))
           /\ (e > Len(s) \/ ~IsWordChar(s[e]))
           /\ c <= Len(s) /\ s[c] = ":"
        THEN [g1 |-> g1, g2 |-> g2, end |-> SkipSpace(s, c + 1)]
        ELSE [g1 |-> FALSE, g2 |-> FALSE, end |-> 0]
ExplanationEnd(s, a) == ExplanationMatch(s, a).end

\* the replacement r'\1Solution\2: '
ExplanationRepl(s, a, b) ==
    LET m == ExplanationMatch(s, a)
    IN  (IF m.g1 THEN <<"*", "*">> ELSE <<>>) \o <<"Solution">>
        \o (IF m.g2 THEN <<"*", "*">> ELSE <<>>) \o <<":", SP>>
ExplanationToSolution(s) == ReSub(ExplanationEnd, ExplanationRepl, s, 1)

\* lines 20-32: the content that is split
Normalise(s) == ExplanationToSolution(BrToNewline(Unescape(s)))

----------------------------------------------------------------------------
(* parse_questions_from_file: the split into blocks *)

\* a pattern without the negative lookahead, as that of src/test_parse.py
NotDecimalUnchecked(s, q) == TRUE

\* the negative lookahead \s*(?![\d.]) at q: with white space at q the \s*
\* gives one back and the lookahead sees it; without, it sees s[q]
NotDecimal(s, q) == q > Len(s) \/ s[q] \notin (Digit \cup {"."})

\* the number of # that stand at a
RECURSIVE CountHash(_, _)
CountHash(s, a) ==
    IF a <= Len(s) /\ s[a] = "#" THEN 1 + CountHash(s, a + 1) ELSE 0

\* \#{1,6}\s*\d+\.  at a: the position after it, 0 if it does not match
HeaderNumberEnd(s, a) ==
    LET h == CountHash(s, a)
        b == SkipSpace(s, a + h)
        c == SkipDigits(s, b)
    IN  IF h >= 1 /\ h <= 6 /\ c > b /\ c <= Len(s) /\ s[c] = "."
        THEN c + 1 ELSE 0

\* \*\*\d+\s*\.\s*\*\*  at a: the position after it, 0 if it does not match
BoldNumberEnd(s, a) ==
    LET c == SkipDigits(s, a + 2)
        d == SkipSpace(s, c)
        e == SkipSpace(s, d + 1)
    IN  IF /\ At(s, a, <<"*", "*">>) /\ c > a + 2
           /\ d <= Len(s) /\ s[d] = "." /\ At(s, e, <<"*", "*">>)
        THEN e + 2 ELSE 0

\* \d+\s*(?:\\.)?\.  at a: the position after it, 0 if it does not match.
\* (?:\\.) is a backslash and one more character, not a line break.
PlainNumberEnd(s, a) ==
    LET c == SkipDigits(s, a)
        d == SkipSpace(s, c)
        esc == /\ d + 1 <= Len(s) /\ s[d] = BS
               /\ s[d + 1] # NL /\ CharLen(s[d + 1]) = 1
        e == IF esc THEN d + 2 ELSE d
    IN  IF c > a /\ e <= Len(s) /\ s[e] = "." THEN e + 1 ELSE 0

\* the lookahead of line 42 at a
QuestionStart(s, a) ==
    \/ HeaderNumberEnd(s, a) # 0
    \/ BoldNumberEnd(s, a) # 0 /\ NotDecimal(s, BoldNumberEnd(s, a))
    \/ PlainNumberEnd(s, a) # 0 /\ NotDecimal(s, PlainNumberEnd(s, a))

\* (?m)^ : the start of the text and the position after each line break
LineStart(s, a) == a = 1 \/ s[a - 1] = NL

\* re.split(pattern, content): the pattern matches the empty string at the
\* start of every line that QuestionStart accepts, and the text is cut there
RECURSIVE SplitFrom(_, _)
SplitFrom(s, from) ==
    LET m == First(LAMBDA k : LineStart(s, k) /\ QuestionStart(s, k),
                   from + 1, Len(s))
    IN  IF m = 0 THEN <<From(s, from)>>
        ELSE <<Slice(s, from, m - 1)>> \o SplitFrom(s, m)
SplitParts(s) ==
    IF s # <<>> /\ QuestionStart(s, 1) THEN <<<<>>>> \o SplitFrom(s, 1)
    ELSE SplitFrom(s, 1)

----------------------------------------------------------------------------
(* parse_questions_from_file: section headers *)

RECURSIVE Sum(_, _)
Sum(Op(_), s) == IF s = <<>> THEN 0 ELSE Op(Head(s)) + Sum(Op, Tail(s))

DigitCount(c) == IF c \in Digit THEN 1 ELSE 0

header_keywords ==
    {"aptitude", "reasoning", "verbal", "quantitative", "technical",
     "pseudocode", "fundamental", "computer", "network", "security",
     "cloud", "mock", "test", "placement", "logical", "analytical"}

\* keyword in first_line.lower(): a keyword is a run of letters, so it can
\* only lie inside one word; no word of the vocabulary holds a keyword and
\* more letters
ContainsKeyword(c) == Fold(c) \in header_keywords

\* first_line[0].islower(): every word of the vocabulary that has an
\* uppercase letter begins with one
StartsLower(line) ==
    line # <<>> /\ UpperCount(line[1]) = 0 /\ LowerCount(line[1]) > 0

\* lines[0].strip() of the block
FirstLine(part) == Strip(SplitLines(part)[1])

\* re.match(r'^(\d+\.|\*\*\d+\.|#{1,6}\s*\d+\.)', first_line)
StartsWithQuestion(line) ==
    LET c == SkipDigits(line, 1)
        d == SkipDigits(line, 3)
    IN  \/ c > 1 /\ c <= Len(line) /\ line[c] = "."
        \/ At(line, 1, <<"*", "*">>) /\ d > 3 /\ d <= Len(line) /\ line[d] = "."
        \/ HeaderNumberEnd(line, 1) # 0

\* a header test that knows uppercase headers only
IsSectionHeaderCapsOnly(first_line) ==
    /\ Sum(CharLen, first_line) < 100
    /\ \A k \in 1..Len(first_line) : first_line[k] # "?"
    /\ Sum(DigitCount, first_line) < 3
    /\ Sum(UpperCount, first_line) >= 1
    /\ Sum(LowerCount, first_line) = 0
    /\ Len(SplitWords(first_line)) <= 15

\* lines 62-91: whether the block is skipped as a section header
IsSectionHeader(first_line) ==
    LET length == Sum(CharLen, first_line)
        uppers == Sum(UpperCount, first_line)
        lowers == Sum(LowerCount, first_line)
        is_all_caps == (uppers >= 1 /\ lowers = 0) \/ 10 * uppers > 7 * length
        has_question_mark == \E k \in 1..Len(first_line) : first_line[k] = "?"
        digit_count == Sum(DigitCount, first_line)
        word_count == Len(SplitWords(first_line))
        is_header_keyword ==
            \E k \in 1..Len(first_line) : ContainsKeyword(first_line[k])
        is_continuation ==
            /\ ~StartsWithQuestion(first_line)
            /\ length > 30
            /\ ~has_question_mark
            /\ StartsLower(first_line)
    IN  /\ length < 100
        /\ ~has_question_mark
        /\ digit_count < 3
        /\ (is_all_caps \/ is_header_keyword \/ is_continuation)
        /\ word_count <= 15

----------------------------------------------------------------------------
(* remove_markdown_formatting and process_base64_images *)

\* the first position from a on where ** stands, 0 when a line break or the
\* end of the text comes first ("." of (.*?) matches no line break)
FindBoldClose(s, a) ==
    First(LAMBDA k : At(s, k, <<"*", "*">>), a, Find(s, a, NL) - 1)

\* the same for a single *
FindStarClose(s, a) ==
    First(LAMBDA k : s[k] = "*", a, Find(s, a, NL) - 1)

\* re.sub(r'\*\*(.*?)\*\*', r'\1', text)
BoldEnd(s, a) ==
    IF At(s, a, <<"*", "*">>) /\ FindBoldClose(s, a + 2) # 0
    THEN FindBoldClose(s, a + 2) + 2 ELSE 0
BoldRepl(s, a, b) == Slice(s, a + 2, b - 3)

\* re.sub(r'\*(.*?)\*', r'\1', text)
ItalicEnd(s, a) ==
    IF a <= Len(s) /\ s[a] = "*" /\ FindStarClose(s, a + 1) # 0
    THEN FindStarClose(s, a + 1) + 1 ELSE 0
ItalicRepl(s, a, b) == Slice(s, a + 1, b - 2)

\* the ] and the ) of \[([^\]]+)\]\([^)]+\) that starts at a
LinkClose(s, a) == Find(s, a + 1, "]")
LinkEnd(s, a) ==
    LET j == LinkClose(s, a)
        k == Find(s, j + 2, ")")
    IN  IF /\ a <= Len(s) /\ s[a] = "[" /\ j > a + 1 /\ j + 1 <= Len(s)
           /\ s[j + 1] = "(" /\ k > j + 2 /\ k <= Len(s)
        THEN k + 1 ELSE 0
LinkRepl(s, a, b) == Slice(s, a + 1, LinkClose(s, a) - 1)

remove_markdown_formatting(text) ==
    ReSub(LinkEnd, LinkRepl,
          ReSub(ItalicEnd, ItalicRepl,
                ReSub(BoldEnd, BoldRepl, text, 1), 1), 1)

\* !\[([^\]]*)\]\((data:image/[^)]+)\) at a
ImageEnd(s, a) ==
    LET j == Find(s, a + 2, "]")
        k == Find(s, j + 3, ")")
    IN  IF /\ At(s, a, <<"!", "[">>) /\ j + 2 <= Len(s)
           /\ s[j + 1] = "(" /\ s[j + 2] = "data:image/"
           /\ k > j + 3 /\ k <= Len(s)
        THEN k + 1 ELSE 0

\* line 139: every inline image is replaced by the empty string (the upload
\* of lines 122-138 is not called)
ImageRepl(s, a, b) == <<>>
process_base64_images(text) == ReSub(ImageEnd, ImageRepl, text, 1)

\* the two calls the source makes on every extracted text
Clean(text) == remove_markdown_formatting(process_base64_images(text))

----------------------------------------------------------------------------
(* parse_single_question: the lines of a block *)

\* the words the parser looks for, under re.IGNORECASE.  No word of the
\* vocabulary holds one of them and more letters.
IsAnswerWord(c) == Fold(c) = "answer"
IsSolutionWord(c) == Fold(c) = "solution"

\* line 147: the position after the question number that is removed from
\* the block, 1 when there is none.  The trailing \s*(?![\d.]) keeps one
\* white space when a digit or a dot follows it.
NumberPrefixEnd(s) ==
    LET a == SkipSpace(s, 1)
        n == IF BoldNumberEnd(s, a) # 0 THEN BoldNumberEnd(s, a)
             ELSE PlainNumberEnd(s, a)
        q == SkipSpace(s, n)
    IN  IF n = 0 THEN 1
        ELSE IF NotDecimal(s, q) THEN q
        ELSE IF q > n THEN q - 1
        ELSE 1

\* lines 147-150: the lines of the block without its question number
BlockLines(part) == SplitLines(From(part, NumberPrefixEnd(part)))

\* Options\s*:?\s*$ at a
OptionsTail(s, a) ==
    LET b == SkipSpace(s, a + 1)
        c == IF b <= Len(s) /\ s[b] = ":" THEN b + 1 ELSE b
    IN  AtFold(s, a, "options") /\ SkipSpace(s, c) > Len(s)

\* lines 164-167: the header of the options
IsOptionsHeader(line) ==
    \/ line = <<"*", "*", "Options", ":", "*", "*">>
    \/ At(line, 1, <<"*", "*">>) /\ OptionsTail(line, SkipSpace(line, 3))
    \/ OptionsTail(line, 1)
    \/ /\ CountHash(line, 1) \in 1..6
       /\ OptionsTail(line, SkipSpace(line, CountHash(line, 1) + 1))

\* ^[A-E]\.
PlainMarker(line) == Len(line) >= 2 /\ line[1] \in OptionLetter /\ line[2] = "."

\* ^\*\*[A-E]\.
BoldMarker(line) ==
    At(line, 1, <<"*", "*">>) /\ Len(line) >= 4
    /\ line[3] \in OptionLetter /\ line[4] = "."

\* ^[A-E]\s*=
EqualsMarker(line) ==
    /\ Len(line) >= 2 /\ line[1] \in OptionLetter
    /\ SkipSpace(line, 2) <= Len(line) /\ line[SkipSpace(line, 2)] = "="

\* line 171
LooksLikeOption(line) == PlainMarker(line) \/ BoldMarker(line) \/ EqualsMarker(line)

\* \*\*\s*<word> at a
BoldWord(s, a, IsIt(_)) ==
    /\ At(s, a, <<"*", "*">>)
    /\ SkipSpace(s, a + 2) <= Len(s) /\ IsIt(s[SkipSpace(s, a + 2)])

\* <word>\s*: at a
WordColon(s, a, IsIt(_)) ==
    /\ a <= Len(s) /\ IsIt(s[a])
    /\ SkipSpace(s, a + 1) <= Len(s) /\ s[SkipSpace(s, a + 1)] = ":"

\* lines 189-191: the line that ends the options
IsTerminator(line) ==
    \/ BoldWord(line, 1, IsAnswerWord)
    \/ At(line, 1, <<"_", "_">>) /\ WordColon(line, 3, IsAnswerWord)
    \/ WordColon(line, 1, IsAnswerWord)
    \/ BoldWord(line, 1, IsSolutionWord)
    \/ WordColon(line, 1, IsSolutionWord)
    \/ /\ Len(line) >= 1 /\ line[1] = "#"
       /\ \/ BoldWord(line, SkipSpace(line, 2), IsAnswerWord)
          \/ BoldWord(line, SkipSpace(line, 2), IsSolutionWord)

\* line 195: group 2 of ^\*\*([A-E])\.\s*\*?\s*(.+) on a stripped line, <<>>
\* when the pattern does not match.  When nothing is left for (.+), the
\* optional * is given back to it.
BoldOptionText(line) ==
    LET b == SkipSpace(line, 5)
        c == IF b <= Len(line) /\ line[b] = "*" THEN b + 1 ELSE b
        d == SkipSpace(line, c)
    IN  IF ~BoldMarker(line) THEN <<>>
        ELSE IF d <= Len(line) THEN From(line, d)
        ELSE From(line, b)

\* line 197: group 2 of ^([A-E])\.\s*(.+)
PlainOptionText(line) ==
    IF PlainMarker(line) THEN From(line, SkipSpace(line, 3)) ELSE <<>>

\* line 199: group 2 of ^([A-E])\s*=\s*(.+)
EqualsOptionText(line) ==
    IF EqualsMarker(line)
    THEN From(line, SkipSpace(line, SkipSpace(line, 2) + 1)) ELSE <<>>

\* \s*\*\*\s*Answer|\s*\*\*$ at a
AnswerCutEnd(s, a) ==
    LET b == SkipSpace(s, a)
    IN  IF BoldWord(s, b, IsAnswerWord) THEN SkipSpace(s, b + 2) + 1
        ELSE IF At(s, b, <<"*", "*">>) /\ b + 1 = Len(s) THEN b + 2
        ELSE 0

\* lines 210, 223: re.split(..., maxsplit=1)[0], the text before the cut
BeforeAnswer(raw) ==
    LET a == ReSearch(AnswerCutEnd, raw, 1)
    IN  IF a = 0 THEN raw ELSE Slice(raw, 1, a - 1)

\* lines 215, 230: the option line also carries the answer
CarriesAnswer(line) ==
    \E a \in 1..Len(line) : BoldWord(line, a, IsAnswerWord)

\* every line after an option is appended to it
IsContinuationAlways(line, opts) == opts # <<>>

\* line 241: a line that is appended to the last option
IsContinuation(line, opts) ==
    /\ opts # <<>>
    /\ ~At(line, 1, <<"*", "*">>)
    /\ ~\E a \in 1..Len(line) : IsAnswerWord(line[a])
    /\ ~PlainMarker(line)
    /\ ~EqualsMarker(line)

----------------------------------------------------------------------------
(* parse_single_question: the answer and the explanation *)

\* Answer\s*:\s* at a: the position after it, 0 if it does not match
AnswerColonEnd(s, a) ==
    IF WordColon(s, a, IsAnswerWord)
    THEN SkipSpace(s, SkipSpace(s, a + 1) + 1) ELSE 0

\* ([A-E])\. at b, under re.IGNORECASE
LetterDot(s, b) ==
    b >= 1 /\ b + 1 <= Len(s) /\ s[b] \in OptionLetterAnyCase /\ s[b + 1] = "."

\* The patterns of lines 254-266, each as the position of its letter when
\* it matches at a, 0 when it does not.
\* Answer\s*:\s*([A-E])\.
PlainAnswer(s, a) ==
    LET b == AnswerColonEnd(s, a)
    IN  IF b # 0 /\ LetterDot(s, b) THEN b ELSE 0

\* __Answer\s*:\s*([A-E])\.
UnderscoreAnswer(s, a) ==
    IF At(s, a, <<"_", "_">>) THEN PlainAnswer(s, a + 2) ELSE 0

\* \*\*\s*Answer\s*:\s*\*?\s*([A-E])\.
BoldAnswer(s, a) ==
    LET b == AnswerColonEnd(s, SkipSpace(s, a + 2))
        c == IF b # 0 /\ b <= Len(s) /\ s[b] = "*" THEN SkipSpace(s, b + 1) ELSE b
    IN  IF At(s, a, <<"*", "*">>) /\ b # 0 /\ LetterDot(s, c) THEN c ELSE 0

\* \*\s*Answer\s*:\s*([A-E])\.
StarAnswer(s, a) ==
    IF a <= Len(s) /\ s[a] = "*" THEN PlainAnswer(s, SkipSpace(s, a + 1)) ELSE 0

\* Answer\s*:\s*([A-E])\s*=
EqualsAnswer(s, a) ==
    LET b == AnswerColonEnd(s, a)
        e == SkipSpace(s, b + 1)
    IN  IF /\ b # 0 /\ b <= Len(s) /\ s[b] \in OptionLetterAnyCase
           /\ e <= Len(s) /\ s[e] = "="
        THEN b ELSE 0

\* group 1 of re.search(pattern, s), <<>> when the pattern is not found
Group(Pattern(_, _), s) ==
    LET a == ReSearch(Pattern, s, 1)
    IN  IF a = 0 THEN <<>> ELSE <<s[Pattern(s, a)]>>

\* an answer resolver without the equals notation of lines 264-266
AnswerLetterNoEquals(s) ==
    IF Group(UnderscoreAnswer, s) # <<>> THEN Group(UnderscoreAnswer, s)
    ELSE IF Group(BoldAnswer, s) # <<>> THEN Group(BoldAnswer, s)
    ELSE IF Group(StarAnswer, s) # <<>> THEN Group(StarAnswer, s)
    ELSE Group(PlainAnswer, s)

\* lines 254-266: the letter of the first pattern that is found, <<>> if none
AnswerLetter(s) ==
    IF Group(UnderscoreAnswer, s) # <<>> THEN Group(UnderscoreAnswer, s)
    ELSE IF Group(BoldAnswer, s) # <<>> THEN Group(BoldAnswer, s)
    ELSE IF Group(StarAnswer, s) # <<>> THEN Group(StarAnswer, s)
    ELSE IF Group(PlainAnswer, s) # <<>> THEN Group(PlainAnswer, s)
    ELSE Group(EqualsAnswer, s)

\* ord(answer_letter.upper()) - ord('A')
LetterIndex(c) ==
    CASE Fold(c) = "a" -> 0
      [] Fold(c) = "b" -> 1
      [] Fold(c) = "c" -> 2
      [] Fold(c) = "d" -> 3
      [] Fold(c) = "e" -> 4

\* lines 155, 268-271
AnswerIndex(s) ==
    IF AnswerLetter(s) # <<>> THEN LetterIndex(AnswerLetter(s)[1]) ELSE 0

\* :?\s*  at c: the position after it
OptColon(s, c) == SkipSpace(s, IF c <= Len(s) /\ s[c] = ":" THEN c + 1 ELSE c)

\* \*\*\s*Solution\s*:?\s*\*?\s*(.*) at a: where (.*) starts, 0 if no match
BoldSolution(s, a) ==
    LET w == SkipSpace(s, a + 2)
        d == OptColon(s, SkipSpace(s, w + 1))
    IN  IF BoldWord(s, a, IsSolutionWord)
        THEN SkipSpace(s, IF d <= Len(s) /\ s[d] = "*" THEN d + 1 ELSE d)
        ELSE 0

\* Solution\s*:?\s*(.*) at a: where (.*) starts, 0 if no match
PlainSolution(s, a) ==
    IF a <= Len(s) /\ IsSolutionWord(s[a])
    THEN OptColon(s, SkipSpace(s, a + 1)) ELSE 0

\* remaining_content.lower().find('answer'), 0 for -1
AnswerWordAt(s, a) == IF IsAnswerWord(s[a]) THEN a + 1 ELSE 0

\* lines 277-289: the explanation as captured from the residual text
RawExplanation(s) ==
    LET b == ReSearch(BoldSolution, s, 1)
        c == ReSearch(PlainSolution, s, 1)
        d == ReSearch(AnswerWordAt, s, 1)
    IN  IF b # 0 THEN Strip(From(s, BoldSolution(s, b)))
        ELSE IF c # 0 THEN Strip(From(s, PlainSolution(s, c)))
        ELSE IF d # 0 THEN Strip(From(s, d))
        ELSE <<>>

\* a join of the explanation lines with the raw line break
BreakTokenNewline == <<NL>>

\* the break token of line 300: a backslash and the letter n
BreakToken == <<BS, "n">>

\* ' '.join(line.split())
Squeeze(line) == Join(SplitWords(line), <<SP>>)

\* line 299: the non-blank lines, each squeezed
RECURSIVE CleanedLines(_)
CleanedLines(ls) ==
    IF ls = <<>> THEN <<>>
    ELSE IF Strip(Head(ls)) = <<>> THEN CleanedLines(Tail(ls))
    ELSE <<Squeeze(Head(ls))>> \o CleanedLines(Tail(ls))

\* lines 291-300
Explanation(s) ==
    Join(CleanedLines(SplitLines(Clean(RawExplanation(s)))), BreakToken)

\* line 250
RemainingContent(ls, n) == Join(SubSeq(ls, n + 1, Len(ls)), <<NL>>)

\* lines 302-313: the record that parse_single_question returns
Record(qtext, opts, rest) ==
    [question     |-> Strip(qtext),
     option_count |-> Len(opts),
     options      |-> opts,
     answer       |-> AnswerIndex(rest) + 1,
     explanation  |-> Explanation(rest)]

\* the value of question before parse_single_question has returned
NoQuestion == [question |-> <<>>, option_count |-> 0, options |-> <<>>,
               answer |-> 0, explanation |-> <<>>]

----------------------------------------------------------------------------
(* The CSV file: write_to_csv, csv.writer and csv.reader, and the rewrite of *)
(* fix_csv_newlines.py                                                      *)

QT == "\""
CR == "\r"

\* str() of a natural number
DigitChar == <<"0", "1", "2", "3", "4", "5", "6", "7", "8", "9">>

RECURSIVE Str(_)
Str(n) ==
    IF n < 10 THEN <<DigitChar[n + 1]>>
    ELSE Str(n \div 10) \o <<DigitChar[(n % 10) + 1]>>

\* lines 318-323: the header row
headers ==
    <<<<"Question", SP, "Type">>, <<"Question">>, <<"Option", SP, "count">>,
      <<"Options", "1">>, <<"Options", "2">>, <<"Options", "3">>,
      <<"Options", "4">>, <<"Answer">>, <<"Category">>, <<"Difficulty">>,
      <<"Score">>, <<"Tags">>, <<"Answer", SP, "Explanation">>,
      <<>>, <<>>, <<>>, <<>>, <<>>>>

\* lines 303, 308-311: the fields that every record has alike
question_type == <<"objective">>
category == <<"Aptitude">>
difficulty == <<"medium">>
score == 5
tags == <<"Aptitude", ",", "Numbers">>

\* line 333: q['options'][:4]
FirstFour(opts) == SubSeq(opts, 1, Min(4, Len(opts)))

\* a padding that fills the missing options with a dash
RECURSIVE PaddedDash(_)
PaddedDash(opts) ==
    IF Len(opts) < 4 THEN PaddedDash(Append(opts, <<"-">>)) ELSE opts

\* lines 334-335: while len(options) < 4: options.append('')
RECURSIVE Padded(_)
Padded(opts) == IF Len(opts) < 4 THEN Padded(Append(opts, <<>>)) ELSE opts

\* lines 337-352: the row of a record
Row(q) ==
    LET opts == Padded(FirstFour(q.options))
    IN  <<question_type, q.question, Str(q.option_count),
          opts[1], opts[2], opts[3], opts[4],
          Str(q.answer), category, difficulty, Str(score), tags,
          q.explanation, <<>>, <<>>, <<>>, <<>>, <<>>>>

\* csv.writer (line 326: dialect excel, QUOTE_MINIMAL) quotes a field that
\* holds the delimiter, the quote character or a character of the line
\* terminator
NeedsQuotes(field) ==
    \E k \in 1..Len(field) : field[k] \in {",", QT, CR, NL}

\* every quote character of a quoted field is doubled
DoubleEnd(s, a) == IF s[a] = QT THEN a + 1 ELSE 0
DoubleRepl(s, a, b) == <<QT, QT>>

WriteField(field) ==
    IF NeedsQuotes(field)
    THEN <<QT>> \o ReSub(DoubleEnd, DoubleRepl, field, 1) \o <<QT>>
    ELSE field

\* writer.writerow: the text of the row, without its line terminator; a row
\* of one empty field is written as two quote characters
writerow(fields) ==
    IF fields = <<<<>>>> THEN <<QT, QT>>
    ELSE Join([k \in 1..Len(fields) |-> WriteField(fields[k])], <<",">>)

\* csv.reader: the quote that closes the quoted field opened at a, the
\* first one after a that is not part of a doubled pair; 0 if none
ClosingQuote(s, a) ==
    First(LAMBDA k : /\ s[k] = QT
                     /\ (k = Len(s) \/ s[k + 1] # QT)
                     /\ Cardinality({m \in (a + 1)..k : s[m] = QT}) % 2 = 1,
          a + 1, Len(s))

UndoubleEnd(s, a) ==
    IF a < Len(s) /\ s[a] = QT /\ s[a + 1] = QT THEN a + 2 ELSE 0
UndoubleRepl(s, a, b) == <<QT>>

\* csv.reader: the fields of the row text s from position a on
RECURSIVE ReadFields(_, _)
ReadFields(s, a) ==
    IF a <= Len(s) /\ s[a] = QT /\ ClosingQuote(s, a) # 0
    THEN LET c == ClosingQuote(s, a)
             e == Find(s, c + 1, ",")
         IN  <<ReSub(UndoubleEnd, UndoubleRepl, Slice(s, a + 1, c - 1), 1)
                 \o Slice(s, c + 1, e - 1)>>
             \o (IF e <= Len(s) THEN ReadFields(s, e + 1) ELSE <<>>)
    ELSE LET e == Find(s, a, ",")
         IN  <<Slice(s, a, e - 1)>>
             \o (IF e <= Len(s) THEN ReadFields(s, e + 1) ELSE <<>>)

reader(s) == IF s = <<>> THEN <<>> ELSE ReadFields(s, 1)

\* fix_csv_newlines.py, lines 23-24: a star before a break token goes with
\* it, then every break token becomes a line break.  (No word that begins
\* with n follows a backslash in the documents, so the token is the two
\* lexemes backslash and n.)
StarBreakEnd(s, a) == IF At(s, a, <<"*", BS, "n">>) THEN a + 3 ELSE 0
BreakEnd(s, a) == IF At(s, a, <<BS, "n">>) THEN a + 2 ELSE 0
NewlineRepl(s, a, b) == <<NL>>

BreaksToNewlines(val) ==
    ReSub(BreakEnd, NewlineRepl, ReSub(StarBreakEnd, NewlineRepl, val, 1), 1)

\* csv.DictReader: the value under the name of column j is that of the last
\* column of that name, '' (None, written as '') when the row ends before it
DictValue(fieldnames, row, j) ==
    LET same == {m \in 1..Len(fieldnames) : fieldnames[m] = fieldnames[j]}
        last == CHOOSE m \in same : \A x \in same : x <= m
    IN  IF last <= Len(row) THEN row[last] ELSE <<>>

\* fix_csv_newlines.py, lines 17-27 and 29-36: a row read and written back
FixedRow(fieldnames, row) ==
    [j \in 1..Len(fieldnames) |->
        IF fieldnames[j] = <<"Answer", SP, "Explanation">>
        THEN BreaksToNewlines(DictValue(fieldnames, row, j))
        ELSE DictValue(fieldnames, row, j)]

\* fix_csv_newlines.py, lines 7-36: the file as process_csv leaves it
process_csv(file) ==
    LET fieldnames == reader(file[1])
    IN  IF \A j \in 1..Len(fieldnames) :
              fieldnames[j] # <<"Answer", SP, "Explanation">>
        THEN file
        ELSE [k \in 1..Len(file) |->
                 IF k = 1 THEN writerow(fieldnames)
                 ELSE writerow(FixedRow(fieldnames, reader(file[k])))]

----------------------------------------------------------------------------
(* The program: main() and parse_questions_from_file *)

\* lines 45-48 and 87-93: the block is skipped
Skipped(part) ==
    Strip(part) = <<>> \/ IsSectionHeader(FirstLine(Strip(part)))

\* no error, and no result
NoError == [class |-> "None", retry_after |-> 0, invocation |-> 0]

\* execute of the retry handler is not called
RetryIdle ==
    /\ max_retries = 5
    /\ attempt = 0
    /\ invocations = 0
    /\ last_error = NoError
    /\ retry_pc = "idle"
    /\ outcome = NoError

\* no batch is given to the pipeline
BatchIdle ==
    /\ parallel_workers = 1
    /\ batch_files = <<>>
    /\ tasks = <<>>
    /\ batch_results = <<>>
    /\ successful = 0
    /\ failed = 0
    /\ batch_pc = "idle"
    /\ pipeline_result = <<>>

\* the state after construction, on the files of a given set
InitOn(inputs) ==
    /\ files \in inputs
    /\ f = 1
    /\ results = <<>>
    /\ pc = "open"
    /\ parts = <<>>
    /\ p = 1
    /\ questions = <<>>
    /\ lines = <<>>
    /\ i = 0
    /\ question_lines = <<>>
    /\ question_text = <<>>
    /\ options = <<>>
    /\ question = NoQuestion
    /\ upload_ok \in BOOLEAN
    /\ csv = <<>>
    /\ BatchIdle
    /\ RetryIdle

\* main, line 386, and parse_questions_from_file, lines 15-43
OpenFile ==
    /\ pc = "open"
    /\ f <= Len(files)
    /\ parts' = SplitParts(Normalise(files[f]))
    /\ p' = 1
    /\ questions' = <<>>
    /\ pc' = "loop"
    /\ UNCHANGED <<files, f, results, lines, i, question_lines,
                   question_text, options, question,
                   upload_ok, csv, batchVars, retryVars>>

\* lines 45-48 and 50-93: an empty block or a section header is passed over
SkipPart ==
    /\ pc = "loop"
    /\ p <= Len(parts)
    /\ Skipped(parts[p])
    /\ p' = p + 1
    /\ UNCHANGED <<files, f, results, pc, parts, questions, lines, i,
                   question_lines, question_text, options, question,
                   upload_ok, csv, batchVars, retryVars>>

\* line 95 and lines 147-158: parse_single_question is entered
StartQuestion ==
    /\ pc = "loop"
    /\ p <= Len(parts)
    /\ ~Skipped(parts[p])
    /\ lines' = BlockLines(Strip(parts[p]))
    /\ i' = 0
    /\ question_lines' = <<>>
    /\ options' = <<>>
    /\ question_text' = <<>>
    /\ question' = NoQuestion
    /\ pc' = "question"
    /\ UNCHANGED <<files, f, results, parts, p, questions,
                   upload_ok, csv, batchVars, retryVars>>

\* lines 160-181: one turn of the loop over the question text; the turn
\* that leaves the loop also sets question_text
QuestionLine ==
    /\ pc = "question"
    /\ LET line == Strip(lines[i + 1])
           leave == i >= Len(lines) \/ IsOptionsHeader(line) \/ LooksLikeOption(line)
       IN  /\ i' = IF i < Len(lines) /\ (IsOptionsHeader(line) \/ ~LooksLikeOption(line))
                   THEN i + 1 ELSE i
           /\ question_lines' = IF ~leave /\ line # <<>>
                                THEN Append(question_lines, line)
                                ELSE question_lines
           /\ question_text' = IF leave
                               THEN Clean(Join(question_lines, <<SP>>))
                               ELSE question_text
           /\ pc' = IF leave THEN "options" ELSE "question"
    /\ UNCHANGED <<files, f, results, parts, p, questions, lines, options,
                   question,
                   upload_ok, csv, batchVars, retryVars>>

\* lines 201-233: the option a line adds, after which the loop goes on
\* (stay = TRUE) or leaves with the line still to be read
OptionOf(line) ==
    IF BoldOptionText(line) # <<>>
    THEN [text |-> Strip(Clean(BoldOptionText(line))), stay |-> TRUE]
    ELSE IF PlainOptionText(line) # <<>>
    THEN [text |-> Strip(Clean(BeforeAnswer(PlainOptionText(line)))),
          stay |-> ~CarriesAnswer(line)]
    ELSE [text |-> <<line[1], SP, "=", SP>>
                   \o Strip(Clean(BeforeAnswer(EqualsOptionText(line)))),
          stay |-> ~CarriesAnswer(line)]

\* lines 195-199: one of the three option patterns matches
IsOptionLine(line) ==
    \/ BoldOptionText(line) # <<>>
    \/ PlainOptionText(line) # <<>>
    \/ EqualsOptionText(line) # <<>>

\* lines 184-247: one turn of the loop over the options
OptionLine ==
    /\ pc = "options"
    /\ LET line == Strip(lines[i + 1])
       IN  IF i >= Len(lines) \/ IsTerminator(line)
           THEN /\ pc' = "residual"
                /\ UNCHANGED <<i, options>>
           ELSE IF IsOptionLine(line)
           THEN /\ options' = Append(options, OptionOf(line).text)
                /\ i' = IF OptionOf(line).stay THEN i + 1 ELSE i
                /\ pc' = IF OptionOf(line).stay THEN "options" ELSE "residual"
           ELSE /\ options' =
                      IF /\ line # <<>>
                         /\ ~WordColon(line, 1, IsSolutionWord)
                         /\ IsContinuation(line, options)
                      THEN [options EXCEPT ![Len(options)] = @ \o <<SP>> \o Clean(line)]
                      ELSE options
                /\ i' = i + 1
                /\ pc' = "options"
    /\ UNCHANGED <<files, f, results, parts, p, questions, lines,
                   question_lines, question_text, question,
                   upload_ok, csv, batchVars, retryVars>>

\* lines 249-313: the answer and the explanation are taken from the rest of
\* the block and the record is returned
Resolve ==
    /\ pc = "residual"
    /\ question' = Record(question_text, options, RemainingContent(lines, i))
    /\ pc' = "append"
    /\ UNCHANGED <<files, f, results, parts, p, questions, lines, i,
                   question_lines, question_text, options,
                   upload_ok, csv, batchVars, retryVars>>

\* the record is put before the records of the earlier blocks
AppendQuestionFront ==
    /\ pc = "append"
    /\ questions' = <<question>> \o questions
    /\ p' = p + 1
    /\ pc' = "loop"
    /\ UNCHANGED <<files, f, results, parts, lines, i, question_lines,
                   question_text, options, question,
                   upload_ok, csv, batchVars, retryVars>>

\* lines 96-97: the record, a non-empty dict, is appended
AppendQuestion ==
    /\ pc = "append"
    /\ questions' = Append(questions, question)
    /\ p' = p + 1
    /\ pc' = "loop"
    /\ UNCHANGED <<files, f, results, parts, lines, i, question_lines,
                   question_text, options, question,
                   upload_ok, csv, batchVars, retryVars>>

\* line 99 and main, lines 386-394: the records of the file are returned
ReturnQuestions ==
    /\ pc = "loop"
    /\ p > Len(parts)
    /\ results' = Append(results, questions)
    /\ pc' = "write"
    /\ UNCHANGED <<files, f, parts, p, questions, lines, i, question_lines,
                   question_text, options, question,
                   upload_ok, csv, batchVars, retryVars>>

\* main, line 395, and write_to_csv, lines 325-329: the file is opened and
\* the header row written
WriteHeaders ==
    /\ pc = "write"
    /\ csv' = <<writerow(headers)>>
    /\ pc' = "rows"
    /\ UNCHANGED <<files, f, results, parts, p, questions, lines, i,
                   question_lines, question_text, options, question,
                   upload_ok, batchVars, retryVars>>

\* lines 332-353: one turn of the loop over the records
WriteQuestion ==
    /\ pc = "rows"
    /\ Len(csv) <= Len(questions)
    /\ csv' = Append(csv, writerow(Row(questions[Len(csv)])))
    /\ UNCHANGED <<files, f, results, pc, parts, p, questions, lines, i,
                   question_lines, question_text, options, question,
                   upload_ok, batchVars, retryVars>>

\* the file is closed and main, line 383, goes on to the next file
CloseCsv ==
    /\ pc = "rows"
    /\ Len(csv) > Len(questions)
    /\ f' = f + 1
    /\ pc' = "open"
    /\ UNCHANGED <<files, results, parts, p, questions, lines, i,
                   question_lines, question_text, options, question,
                   upload_ok, csv, batchVars, retryVars>>

\* fix_csv_newlines.py run on the file that main wrote last
FixNewlines ==
    /\ pc = "open"
    /\ f > Len(files)
    /\ csv # <<>>
    /\ csv' = process_csv(csv)
    /\ pc' = "fixed"
    /\ UNCHANGED <<files, f, results, parts, p, questions, lines, i,
                   question_lines, question_text, options, question,
                   upload_ok, batchVars, retryVars>>

Next ==
    \/ OpenFile
    \/ SkipPart
    \/ StartQuestion
    \/ QuestionLine
    \/ OptionLine
    \/ Resolve
    \/ AppendQuestion
    \/ ReturnQuestions
    \/ WriteHeaders
    \/ WriteQuestion
    \/ CloseCsv
    \/ FixNewlines

\* every file has been parsed
Done == pc = "open" /\ f > Len(files)

----------------------------------------------------------------------------
(* Documents *)

\* the text of a document given by its lines
Doc(ls) == Join(ls, <<NL>>)

\* the sequences of ss one after the other
RECURSIVE Flatten(_)
Flatten(ss) == IF ss = <<>> THEN <<>> ELSE Head(ss) \o Flatten(Tail(ss))

\* the documents of at most n lines over the lines of cat
DocsOver(cat, n) ==
    UNION {{Doc([k \in 1..m |-> cat[ids[k]]]) : ids \in [1..m -> 1..Len(cat)]}
           : m \in 1..n}

LineQuestion == <<"1", ".", SP, "What", SP, "is", SP, "2", "+", "2", "?">>
LineOptionA == <<"A", ".", SP, "3">>
LineOptionB == <<"B", ".", SP, "4">>
LineAnswerB == <<"*", "*", "Answer", ":", SP, "B", ".", "*", "*">>
LineSolution ==
    <<"*", "*", "Solution", ":", "*", "*", SP, "Basic", SP, "addition", ".">>
LineAnswerText == <<"Answer", ":", SP, "4">>
LineOptionImage ==
    <<"A", ".", SP,
      "!", "[", "img", "]", "(", "data:image/", "png;base64,aaaa", ")">>

\* the documents of Spec: the worked example of the specification and
\* what its lines make in any other order
BasicLines == <<LineQuestion, LineOptionA, LineOptionB, LineAnswerB,
                LineSolution, LineAnswerText>>

\* the longest document of Spec, in lines
MaxLines == 5

Init == InitOn({<<d>> : d \in DocsOver(BasicLines, MaxLines)})

Spec == Init /\ [][Next]_vars

\* the documents of SpecSegment: question numbers, a decimal number and
\* section headers
LineDecimal ==
    <<"1", ".", "1", "2", "3", "6", SP, "is", SP, "a", SP, "decimal">>
LineHeader == <<"QUANTITATIVE", SP, "APTITUDE">>
LineNumberedHeader == <<"2", ".", SP, "QUANTITATIVE", SP, "APTITUDE">>
LineKeyword == <<"What", SP, "is", SP, "a", SP, "test">>
LineManyWords ==
    <<"X", SP, "X", SP, "X", SP, "X", SP, "X", SP, "X", SP, "X", SP, "X", SP,
      "X", SP, "X", SP, "X", SP, "X", SP, "X", SP, "X", SP, "X", SP, "X">>

SegmentLines == <<LineQuestion, LineOptionA, LineDecimal, LineHeader,
                  LineNumberedHeader, LineKeyword, LineManyWords>>

\* the longest document of SpecSegment, in lines
MaxSegmentLines == 3

InitSegment == InitOn({<<d>> : d \in DocsOver(SegmentLines, MaxSegmentLines)})

SpecSegment == InitSegment /\ [][Next]_vars

\* the documents of SpecEscape come in pairs: a document, and the same
\* document with the escaped dot of its question numbers written plain
LineEscaped == <<"6", BS, ".", SP, "The", SP, "sequence", "?">>
LinePlain == <<"6", ".", SP, "The", SP, "sequence", "?">>
LineOptionEscaped == <<"A", BS, ".", SP, "3">>

EscapedLines == <<LineEscaped, LineQuestion, LineOptionA, LineOptionB,
                  LineAnswerB, LineOptionEscaped>>
PlainLines == <<LinePlain, LineQuestion, LineOptionA, LineOptionB,
                LineAnswerB, LineOptionEscaped>>

\* the longest document of SpecEscape, in lines
MaxEscapeLines == 3

InitEscape ==
    InitOn(UNION {{<<Doc([k \in 1..m |-> EscapedLines[ids[k]]]),
                     Doc([k \in 1..m |-> PlainLines[ids[k]]])>>
                   : ids \in [1..m -> 1..Len(EscapedLines)]}
                  : m \in 1..MaxEscapeLines})

SpecEscape == InitEscape /\ [][Next]_vars

\* the documents of SpecAnswer: options and answers in equals notation
LineEqualsA == <<"A", SP, "=", SP, "Yes">>
LineEqualsB == <<"B", SP, "=", SP, "No">>
LineAnswerEqualsA == <<"Answer", SP, ":", SP, "A", SP, "=", SP, "Yes">>
LineAnswerEqualsB == <<"Answer", SP, ":", SP, "B", SP, "=", SP, "No">>

AnswerLines == <<LineQuestion, LineEqualsA, LineEqualsB, LineAnswerEqualsA,
                 LineAnswerEqualsB, LineAnswerB>>

\* the longest document of SpecAnswer, in lines
MaxAnswerLines == 4

InitAnswer == InitOn({<<d>> : d \in DocsOver(AnswerLines, MaxAnswerLines)})

SpecAnswer == InitAnswer /\ [][Next]_vars

\* the documents of SpecOptions: option lines in their notations
OptionLines == <<LineQuestion, LineOptionA, LineOptionB, LineOptionImage,
                 LineAnswerB>>

\* the longest document of SpecOptions, in lines
MaxOptionLines == 3

InitOptions == InitOn({<<d>> : d \in DocsOver(OptionLines, MaxOptionLines)})

SpecOptions == InitOptions /\ [][Next]_vars

\* the documents that open with the lines first and go on with at most n
\* lines of cat
DocsAfter(first, cat, n) ==
    UNION {{Doc(first \o [k \in 1..m |-> cat[ids[k]]])
              : ids \in [1..m -> 1..Len(cat)]} : m \in 1..n}

\* the documents of SpecExplain: a question with an option, then residual
\* text of several lines, with blank lines, runs of spaces, a backslash and
\* n written in the text, a line that ends in a star, and an answer
\* without a letter
LineText == <<"The", SP, SP, "sequence">>
LineBlank == <<>>
LineLiteral == <<"2", SP, BS, "n", SP, "3">>
LineStar == <<"2", SP, "*">>

ExplainLines == <<LineSolution, LineText, LineBlank, LineLiteral, LineStar,
                  LineAnswerText>>

\* the longest residual text of SpecExplain, in lines
MaxExplainLines == 4

InitExplain ==
    InitOn({<<d>> : d \in DocsAfter(<<LineQuestion, LineOptionA>>,
                                     ExplainLines, MaxExplainLines)})

SpecExplain == InitExplain /\ [][Next]_vars

\* the documents of SpecTrailing: in each run a document, and the same
\* document with a last line that is a question number and nothing else
LineBareNumber == <<"7", ".">>

TrailingLines == <<LineQuestion, LineOptionA, LineAnswerB>>

\* the longest document of SpecTrailing before the bare number, in lines
MaxTrailingLines == 3

InitTrailing ==
    InitOn({<<d, d \o <<NL>> \o LineBareNumber>>
              : d \in DocsOver(TrailingLines, MaxTrailingLines)})

SpecTrailing == InitTrailing /\ [][Next]_vars

\* the documents of SpecImage: questions and options with and without an
\* inline base64 image
LineImageOnly ==
    <<"1", ".", SP,
      "!", "[", "img", "]", "(", "data:image/", "png;base64,aaaa", ")">>
LineImageQuestion ==
    <<"2", ".", SP, "What", SP, "is", SP,
      "!", "[", "img", "]", "(", "data:image/", "png;base64,aaaa", ")", "?">>

ImageLines == <<LineQuestion, LineImageOnly, LineImageQuestion, LineOptionA,
                LineOptionImage>>

\* the longest document of SpecImage, in lines
MaxImageLines == 3

InitImage == InitOn({<<d>> : d \in DocsOver(ImageLines, MaxImageLines)})

SpecImage == InitImage /\ [][Next]_vars

\* the documents of SpecCsv: blocks of a question, some options, of which
\* some hold a comma or quote characters, and with or without a solution of
\* two lines
LineOptionComma == <<"B", ".", SP, "3", ",", "4">>
LineOptionQuote == <<"C", ".", SP, QT, "3", QT>>

CsvOptionLines == <<LineOptionA, LineOptionComma, LineOptionQuote>>

CsvBlock(n, solved) ==
    <<LineQuestion>>
    \o [j \in 1..n |-> CsvOptionLines[((j - 1) % Len(CsvOptionLines)) + 1]]
    \o (IF solved THEN <<LineSolution, LineText>> ELSE <<>>)

\* the most options of a block of SpecCsv, and the most blocks of a document
MaxCsvOptions == 5
MaxCsvBlocks == 2

CsvBlocks == {CsvBlock(n, solved) : n \in 0..MaxCsvOptions, solved \in BOOLEAN}

InitCsv ==
    InitOn({<<Doc(Flatten(bs))>>
              : bs \in UNION {[1..m -> CsvBlocks] : m \in 1..MaxCsvBlocks}})

SpecCsv == InitCsv /\ [][Next]_vars

\* the documents of SpecOrder: numbered questions that differ in their
\* number, each with an option, and a numbered section header, in any order
\* and each at most once
MaxOrderBlocks == 3

OrderBlock(k) ==
    IF k = 0 THEN LineNumberedHeader
    ELSE Doc(<<Str(k) \o <<".", SP, "What", SP, "is", SP>> \o Str(k) \o <<"?">>,
               LineOptionA>>)

InitOrder ==
    InitOn({<<Doc([k \in 1..Len(ids) |-> OrderBlock(ids[k])])>>
              : ids \in UNION {{s \in [1..m -> 0..MaxOrderBlocks]
                                   : \A a, b \in 1..m : s[a] = s[b] => a = b}
                                : m \in 1..(MaxOrderBlocks + 1)}})

SpecOrder == InitOrder /\ [][Next]_vars

\* the documents of SpecCombined: a question and an option, then option
\* lines that also carry the answer marker, in the three notations, and
\* plain lines
LineCombined ==
    <<"B", ".", SP, "4", SP, "*", "*", "Answer", ":", SP, "B", ".", "*", "*">>
LineBoldCombined ==
    <<"*", "*", "B", ".", "*", "*", SP, "4", SP,
      "*", "*", "Answer", ":", SP, "B", ".", "*", "*">>
LineEqualsCombined ==
    <<"B", SP, "=", SP, "No", SP,
      "*", "*", "Answer", ":", SP, "B", ".", "*", "*">>

CombinedLines == <<LineCombined, LineBoldCombined, LineEqualsCombined,
                   LineOptionB, LineSolution>>

MaxCombinedLines == 3

InitCombined ==
    InitOn({<<d>> : d \in DocsAfter(<<LineQuestion, LineOptionA>>,
                                     CombinedLines, MaxCombinedLines)})

SpecCombined == InitCombined /\ [][Next]_vars

\* the documents of SpecContinue: a question and an option, then lines of
\* text, plain, opened by bold characters or holding the word answer, the
\* second option, blank lines and the answer
LineBoldText == <<"*", "*", "The", "*", "*", SP, "sequence">>
LineAnswerWord == <<"The", SP, "answer">>

ContinueLines == <<LineText, LineBoldText, LineAnswerWord, LineOptionB,
                   LineBlank, LineAnswerB>>

MaxContinueLines == 3

InitContinue ==
    InitOn({<<d>> : d \in DocsAfter(<<LineQuestion, LineOptionA>>,
                                     ContinueLines, MaxContinueLines)})

SpecContinue == InitContinue /\ [][Next]_vars

\* the documents of SpecNotation: a question, then the option 3 in the
\* four notations of an option line
LineBoldOption == <<"*", "*", "A", ".", "*", "*", SP, "3">>
LineHalfBoldOption == <<"*", "*", "A", ".", SP, "3">>
LineEqualsOption == <<"A", SP, "=", SP, "3">>

NotationLines == <<LineOptionA, LineBoldOption, LineHalfBoldOption,
                   LineEqualsOption>>

MaxNotationLines == 3

InitNotation ==
    InitOn({<<d>> : d \in DocsAfter(<<LineQuestion>>, NotationLines,
                                     MaxNotationLines)})

SpecNotation == InitNotation /\ [][Next]_vars

\* the files of SpecForms: the same block four times, one file for each
\* form of the question number 12: plain, bold, escaped and after header
\* characters
NumberForms ==
    <<<<"1", "2", ".", SP>>,
      <<"*", "*", "1", "2", ".", "*", "*", SP>>,
      <<"1", "2", BS, ".", SP>>,
      <<"#", "#", "#", SP, "1", "2", ".", SP>>>>

QuestionBody == <<"What", SP, "is", SP, "2", "+", "2", "?">>

FormLines == <<LineOptionA, LineOptionB, LineAnswerB, LineSolution>>

MaxFormLines == 3

InitForms ==
    InitOn({[k \in 1..Len(NumberForms) |-> NumberForms[k] \o QuestionBody \o d]
              : d \in {<<>>} \cup {<<NL>> \o e
                                     : e \in DocsOver(FormLines, MaxFormLines)}})

SpecForms == InitForms /\ [][Next]_vars

\* the files of SpecMarkers: a block with Solution markers, bold or plain,
\* with or without a colon, and the same block with the word Explanation
\* in the place of Solution
LineBoldSolutionNoColon ==
    <<"*", "*", "Solution", "*", "*", SP, "Basic", SP, "addition", ".">>
LinePlainSolution == <<"Solution", ":", SP, "Basic", SP, "addition", ".">>
LinePlainSolutionNoColon == <<"Solution", SP, "Basic", SP, "addition", ".">>

MarkerLines == <<LineSolution, LineBoldSolutionNoColon, LinePlainSolution,
                 LinePlainSolutionNoColon, LineAnswerB, LineText>>

MaxMarkerLines == 2

WithExplanation(s) ==
    [k \in 1..Len(s) |-> IF s[k] = "Solution" THEN "Explanation" ELSE s[k]]

InitMarkers ==
    InitOn({<<d, WithExplanation(d)>>
              : d \in DocsAfter(<<LineQuestion, LineOptionA>>,
                                 MarkerLines, MaxMarkerLines)})

SpecMarkers == InitMarkers /\ [][Next]_vars

----------------------------------------------------------------------------
(* Pipeline.process_batch and Pipeline.process_file (new-ai-converter,      *)
(* core/pipeline.py).  A task is one call of process_file; the event loop   *)
(* runs one step of one task at a time.                                     *)

\* the most files of a batch and the most workers of a configuration
MaxFiles == 3
MaxWorkers == 2

\* lines 95-166: the stages of process_file inside its try statement
Stages == <<"read", "preprocess", "parse", "postprocess", "write", "verify",
            "fix">>

\* a call of process_file that has not been entered; stage is the stage it
\* is in once it runs, result what it gave once it has ended
NewTask ==
    [status |-> "created", stage |-> 0,
     result |-> [exception |-> FALSE, success |-> FALSE]]

\* lines 179-189 and 194-200: a ConversionResult; an exception that leaves
\* process_file, which gather hands back as a result (line 231)
ConversionResult(success) == [exception |-> FALSE, success |-> success]
RaisedException == [exception |-> TRUE, success |-> FALSE]

\* lines 225-237: the task may take a step: every task under gather, the
\* task of the current turn of the for loop otherwise
Scheduled(k) ==
    /\ batch_pc = "run"
    /\ k \in 1..Len(tasks)
    /\ parallel_workers > 1 \/ k = Len(batch_results) + 1

\* the parser and the CSV file are not part of the pipeline
InitBatch ==
    /\ files = <<>>
    /\ f = 1
    /\ results = <<>>
    /\ pc = "open"
    /\ parts = <<>>
    /\ p = 1
    /\ questions = <<>>
    /\ lines = <<>>
    /\ i = 0
    /\ question_lines = <<>>
    /\ question_text = <<>>
    /\ options = <<>>
    /\ question = NoQuestion
    /\ upload_ok = TRUE
    /\ csv = <<>>
    /\ parallel_workers \in 1..MaxWorkers
    /\ batch_files = <<>>
    /\ tasks = <<>>
    /\ batch_results = <<>>
    /\ successful = 0
    /\ failed = 0
    /\ batch_pc = "idle"
    /\ pipeline_result = <<>>
    /\ RetryIdle

\* lines 203-229: process_batch is called with n pairs of files
ProcessBatch(n) ==
    /\ batch_pc = "idle"
    /\ batch_files' = [k \in 1..n |-> k]
    /\ tasks' = [k \in 1..n |-> NewTask]
    /\ batch_results' = <<>>
    /\ successful' = 0
    /\ failed' = 0
    /\ batch_pc' = "run"
    /\ UNCHANGED <<parserVars, upload_ok, csv, retryVars, parallel_workers,
                   pipeline_result>>

\* lines 85-97: process_file is entered and comes to its first stage
EnterFile(k) ==
    /\ Scheduled(k)
    /\ tasks[k].status = "created"
    /\ tasks' = [tasks EXCEPT ![k].status = "running", ![k].stage = 1]
    /\ UNCHANGED <<parserVars, upload_ok, csv, retryVars, parallel_workers, batch_files,
                   batch_results, successful, failed, batch_pc,
                   pipeline_result>>

\* lines 97-189: the stage ends without an exception (for the fix, also
\* with a FixError that lines 162-166 catch); the next stage follows, or
\* the result of a success when the file is written and nothing is left
\* to verify or to fix
StagePass(k) ==
    /\ Scheduled(k)
    /\ tasks[k].status = "running"
    /\ \E last \in BOOLEAN :
          /\ last => Stages[tasks[k].stage] \in {"write", "verify", "fix"}
          /\ ~last => tasks[k].stage < Len(Stages)
          /\ tasks' = IF last
                      THEN [tasks EXCEPT ![k].status = "returned",
                                         ![k].result = ConversionResult(TRUE)]
                      ELSE [tasks EXCEPT ![k].stage = @ + 1]
    /\ UNCHANGED <<parserVars, upload_ok, csv, retryVars, parallel_workers, batch_files,
                   batch_results, successful, failed, batch_pc,
                   pipeline_result>>

\* the exception of a stage leaves process_file
StageRaiseUncaught(k) ==
    /\ Scheduled(k)
    /\ tasks[k].status = "running"
    /\ tasks' = [tasks EXCEPT ![k].status = "returned",
                              ![k].result = RaisedException]
    /\ batch_pc' = IF parallel_workers > 1 THEN batch_pc ELSE "raised"
    /\ UNCHANGED <<parserVars, upload_ok, csv, retryVars, parallel_workers, batch_files,
                   batch_results, successful, failed, pipeline_result>>

\* lines 191-201: a stage raises an exception, which process_file catches
\* and turns into the result of a failure
StageRaise(k) ==
    /\ Scheduled(k)
    /\ tasks[k].status = "running"
    /\ tasks' = [tasks EXCEPT ![k].status = "returned",
                              ![k].result = ConversionResult(FALSE)]
    /\ batch_pc' = batch_pc
    /\ UNCHANGED <<parserVars, upload_ok, csv, retryVars, parallel_workers, batch_files,
                   batch_results, successful, failed, pipeline_result>>

\* lines 235-237: the for loop appends the result of the file of its turn
AppendResult ==
    /\ batch_pc = "run"
    /\ parallel_workers <= 1
    /\ Len(batch_results) < Len(tasks)
    /\ tasks[Len(batch_results) + 1].status = "returned"
    /\ batch_results' = Append(batch_results,
                               tasks[Len(batch_results) + 1].result)
    /\ UNCHANGED <<parserVars, upload_ok, csv, retryVars, parallel_workers, batch_files,
                   tasks, successful, failed, batch_pc, pipeline_result>>

\* line 235: the for loop has taken every file
EndLoop ==
    /\ batch_pc = "run"
    /\ parallel_workers <= 1
    /\ Len(batch_results) = Len(batch_files)
    /\ batch_pc' = "count"
    /\ UNCHANGED <<parserVars, upload_ok, csv, retryVars, parallel_workers, batch_files,
                   tasks, batch_results, successful, failed, pipeline_result>>

\* line 231: gather returns the results of the tasks, in the order of the
\* files, when every task has ended
Gather ==
    /\ batch_pc = "run"
    /\ parallel_workers > 1
    /\ \A k \in 1..Len(tasks) : tasks[k].status = "returned"
    /\ batch_results' = [k \in 1..Len(tasks) |-> tasks[k].result]
    /\ batch_pc' = "count"
    /\ UNCHANGED <<parserVars, upload_ok, csv, retryVars, parallel_workers, batch_files,
                   tasks, successful, failed, pipeline_result>>

\* lines 240-246: one turn of the loop that counts; the results counted so
\* far are successful + failed
CountResult ==
    /\ batch_pc = "count"
    /\ successful + failed < Len(batch_results)
    /\ LET result == batch_results[successful + failed + 1]
       IN  IF result.exception
           THEN failed' = failed + 1 /\ successful' = successful
           ELSE IF result.success
           THEN successful' = successful + 1 /\ failed' = failed
           ELSE failed' = failed + 1 /\ successful' = successful
    /\ UNCHANGED <<parserVars, upload_ok, csv, retryVars, parallel_workers, batch_files,
                   tasks, batch_results, batch_pc, pipeline_result>>

\* lines 255-261: the PipelineResult is returned
ReturnPipelineResult ==
    /\ batch_pc = "count"
    /\ successful + failed = Len(batch_results)
    /\ pipeline_result' =
          <<[total_files |-> Len(batch_files),
             successful |-> successful,
             failed |-> failed,
             results |-> SelectSeq(batch_results,
                                   LAMBDA r : ~r.exception)]>>
    /\ batch_pc' = "returned"
    /\ UNCHANGED <<parserVars, upload_ok, csv, retryVars, parallel_workers, batch_files,
                   tasks, batch_results, successful, failed>>

NextBatch ==
    \/ \E n \in 0..MaxFiles : ProcessBatch(n)
    \/ \E k \in 1..MaxFiles : EnterFile(k)
    \/ \E k \in 1..MaxFiles : StagePass(k)
    \/ \E k \in 1..MaxFiles : StageRaise(k)
    \/ AppendResult
    \/ EndLoop
    \/ Gather
    \/ CountResult
    \/ ReturnPipelineResult

\* the event loop runs a task that can take a step, and process_batch goes
\* on when it can
SpecBatch == InitBatch /\ [][NextBatch]_vars /\ WF_vars(NextBatch)

----------------------------------------------------------------------------
(* RetryHandler.execute (new-ai-converter, utils/retry.py), called by the   *)
(* conversion stage of the pipeline with the convert of the provider        *)

\* the most retries of a configuration, and the longest wait an error asks
\* for
MaxRetries == 3
MaxRetryAfter == 2

\* core/exceptions.py: the classes of the errors that func raises, and the
\* errors: RetryableError and RateLimitError derive from ConverterError, a
\* RateLimitError has the attribute retry_after, a subclass of
\* RetryableError may have it (0: it has not, or it is not true)
ErrorClasses == {"RetryableError", "RateLimitError", "Exception"}

Errors ==
    {[class |-> c, retry_after |-> n, invocation |-> k]
       : c \in ErrorClasses, n \in 0..MaxRetryAfter,
         k \in 1..(MaxRetries + 2)}

\* every error is retried
IsRetryableAny(e) == TRUE

\* line 61: except RetryableError; a RateLimitError is a ProviderError
\* (exceptions.py, lines 24-34 and 47-49)
IsRetryable(e) == e.class = "RetryableError"

InitRetry ==
    /\ files = <<>>
    /\ f = 1
    /\ results = <<>>
    /\ pc = "open"
    /\ parts = <<>>
    /\ p = 1
    /\ questions = <<>>
    /\ lines = <<>>
    /\ i = 0
    /\ question_lines = <<>>
    /\ question_text = <<>>
    /\ options = <<>>
    /\ question = NoQuestion
    /\ upload_ok = TRUE
    /\ csv = <<>>
    /\ BatchIdle
    /\ max_retries \in 0..MaxRetries
    /\ attempt = 0
    /\ invocations = 0
    /\ last_error = NoError
    /\ retry_pc = "idle"
    /\ outcome = NoError

\* lines 33-47: execute is called
Execute ==
    /\ retry_pc = "idle"
    /\ attempt' = 0
    /\ invocations' = 0
    /\ last_error' = NoError
    /\ retry_pc' = "try"
    /\ UNCHANGED <<parserVars, upload_ok, csv, batchVars, max_retries,
                   outcome>>

\* lines 47-59: after the wait of a retry, func is invoked and returns
InvokeReturns ==
    /\ retry_pc = "try"
    /\ attempt <= max_retries
    /\ invocations' = invocations + 1
    /\ outcome' = [class |-> "Result", retry_after |-> 0,
                   invocation |-> invocations + 1]
    /\ retry_pc' = "returned"
    /\ UNCHANGED <<parserVars, upload_ok, csv, batchVars, max_retries,
                   attempt, last_error>>

\* lines 47-54 and 61-76: func is invoked and raises e
InvokeRaises(e) ==
    /\ retry_pc = "try"
    /\ attempt <= max_retries
    /\ e.invocation = invocations + 1
    /\ e.class = "Exception" => e.retry_after = 0
    /\ invocations' = invocations + 1
    /\ IF IsRetryable(e)
       THEN /\ last_error' = e
            /\ IF e.retry_after > 0 \/ attempt < max_retries
               THEN /\ attempt' = attempt + 1
                    /\ UNCHANGED <<retry_pc, outcome>>
               ELSE /\ retry_pc' = "raised"
                    /\ outcome' = e
                    /\ UNCHANGED attempt
       ELSE /\ last_error' = IF attempt = max_retries THEN last_error ELSE e
            /\ retry_pc' = "raised"
            /\ outcome' = e
            /\ UNCHANGED attempt
    /\ UNCHANGED <<parserVars, upload_ok, csv, batchVars, max_retries>>

\* line 78: the loop has ended
RaiseLast ==
    /\ retry_pc = "try"
    /\ attempt > max_retries
    /\ outcome' = IF last_error = NoError
                  THEN [class |-> "RuntimeError", retry_after |-> 0,
                        invocation |-> 0]
                  ELSE last_error
    /\ retry_pc' = "raised"
    /\ UNCHANGED <<parserVars, upload_ok, csv, batchVars, max_retries,
                   attempt, invocations, last_error>>

NextRetry ==
    \/ Execute
    \/ InvokeReturns
    \/ \E e \in Errors : InvokeRaises(e)
    \/ RaiseLast

\* func and the waits end
SpecRetry == InitRetry /\ [][NextRetry]_vars /\ WF_vars(NextRetry)

----------------------------------------------------------------------------
(* Properties *)

\* the states in which parse_single_question has returned the record of the
\* block parts[p], whose residual text is Residual
Returned == pc = "append"
Residual == RemainingContent(lines, i)

\* C1: every record that parse_single_question returns after an answer
\* notation matched in the residual text has 1 <= answer <= option_count.
C1_AnswerInRange ==
    Returned /\ AnswerLetter(Residual) # <<>>
        => question.answer >= 1 /\ question.answer <= question.option_count

\* the worked example of the specification
WorkedExample ==
    Doc(<<LineQuestion, LineOptionA, LineOptionB, LineAnswerB, LineSolution>>)

\* C2: the worked example yields exactly one record, with question
\* "What is 2+2?", options "3" and "4", option_count 2, answer 2 and
\* explanation "Basic addition.", no marker left in any field.
C2_WorkedExample ==
    Done /\ files[1] = WorkedExample
        => results[1] =
             <<[question     |-> <<"What", SP, "is", SP, "2", "+", "2", "?">>,
                option_count |-> 2,
                options      |-> <<<<"3">>, <<"4">>>>,
                answer       |-> 2,
                explanation  |-> <<"Basic", SP, "addition", ".">>]>>

\* C3: no record with zero options is in the output of
\* parse_questions_from_file.
C3_NoEmptyRecord ==
    \A k \in 1..Len(questions) : questions[k].option_count > 0

\* digits, a dot, then at once another digit or dot
BeginsWithDecimal(s) ==
    LET c == SkipDigits(s, 1)
    IN  c > 1 /\ c + 1 <= Len(s) /\ s[c] = "." /\ s[c + 1] \in Digit \cup {"."}

\* C4: a line that begins with a decimal number never opens a block: no
\* block but the first begins with one, and the blocks put together are the
\* text, so the line is in the block of the line before it.
C4_DecimalNeverOpens ==
    pc \notin {"open", "fixed"}
        => /\ \A k \in 2..Len(parts) : ~BeginsWithDecimal(parts[k])
           /\ Flatten(parts) = Normalise(files[f])

\* a block opened by a question number holds a decimal line after a line
\* break
C4_Witness ==
    /\ pc = "loop"
    /\ \E k \in 2..Len(parts) : \E a \in 2..Len(parts[k]) :
          parts[k][a - 1] = NL /\ BeginsWithDecimal(From(parts[k], a))

\* the first line of a block as C5 has it: shorter than 100 characters, no
\* question mark, fewer than 3 digits, mostly uppercase or with a keyword
C5_HeaderLike(line) ==
    /\ Sum(CharLen, line) < 100
    /\ \A k \in 1..Len(line) : line[k] # "?"
    /\ Sum(DigitCount, line) < 3
    /\ \/ Sum(UpperCount, line) >= 1 /\ Sum(LowerCount, line) = 0
       \/ 10 * Sum(UpperCount, line) > 7 * Sum(CharLen, line)
       \/ \E k \in 1..Len(line) : ContainsKeyword(line[k])

\* C5 as stated: no block with such a first line contributes a record.
C5_Original ==
    Returned => ~C5_HeaderLike(FirstLine(Strip(parts[p])))

\* C5, amended: no block with such a first line of at most 15 words is
\* parsed, and a document that is the block "QUANTITATIVE APTITUDE" yields
\* no record.
C5_HeaderDiscarded ==
    /\ pc \in {"question", "options", "residual", "append"}
          => ~(/\ C5_HeaderLike(FirstLine(Strip(parts[p])))
               /\ Len(SplitWords(FirstLine(Strip(parts[p])))) <= 15)
    /\ Done /\ Len(parts) = 1 /\ FirstLine(Strip(parts[1])) = LineHeader
          => results[1] = <<>>

\* the document whose first line is the header and that has an option line
\* has been parsed to no record
C5_Witness ==
    Done /\ files[1] = Doc(<<LineHeader, LineOptionA>>) /\ results[1] = <<>>

\* C6: a document and the same document with the dot of a question number
\* escaped give the same records.
C6_EscapedDotSame == Done => results[1] = results[2]

\* the two documents differ and the question with the escaped number is
\* among the records
C6_Witness ==
    /\ Done
    /\ files[1] # files[2]
    /\ \E k \in 1..Len(results[1]) :
          results[1][k].question = <<"The", SP, "sequence", "?">>

Letters == <<"A", "B", "C", "D", "E">>

\* the 1-based position of a letter in A..E
C7_Position(x) == CHOOSE k \in 1..Len(Letters) : Letters[k] = x

\* the letter X of the line 'Answer : X = text', <<>> for any other line
C7_AnswerLineLetter(line) ==
    IF /\ Len(line) > 8
       /\ SubSeq(line, 1, 4) = <<"Answer", SP, ":", SP>>
       /\ line[5] \in OptionLetter
       /\ SubSeq(line, 6, 8) = <<SP, "=", SP>>
    THEN <<line[5]>> ELSE <<>>

\* the block has options, all in equals notation, and after them its one
\* answer line, which is 'Answer : X = text'
C7_EqualsBlock ==
    /\ Returned
    /\ options # <<>>
    /\ \A k \in 1..i : LooksLikeOption(Strip(lines[k]))
                          => EqualsMarker(Strip(lines[k]))
    /\ i < Len(lines)
    /\ C7_AnswerLineLetter(lines[i + 1]) # <<>>
    /\ \A k \in (i + 2)..Len(lines) :
          \A a \in 1..Len(lines[k]) : ~IsAnswerWord(lines[k][a])

\* C7: for such a block the answer is the position of X in A..E.
C7_EqualsAnswer ==
    C7_EqualsBlock
        => question.answer = C7_Position(C7_AnswerLineLetter(lines[i + 1])[1])

\* such a block with the answer line 'Answer : B = No' has answer 2
C7_Witness ==
    /\ C7_EqualsBlock
    /\ lines[i + 1] = LineAnswerEqualsB
    /\ question.question # <<>>
    /\ question.option_count = 2
    /\ question.answer = 2

\* a text with every word in lowercase
FoldText(t) == [k \in 1..Len(t) |-> Fold(t[k])]

\* a is a part of b
IsPartOf(a, b) == a # <<>> /\ \E k \in 1..Len(b) : At(b, k, a)

\* the text of the answer line 'Answer: text' that opens the residual text
C8_AnswerText(rest) ==
    LET line == Strip(SplitLines(rest)[1])
    IN  IF WordColon(line, 1, IsAnswerWord)
        THEN Strip(From(line, SkipSpace(line, 2) + 1)) ELSE <<>>

\* the option C8 resolves a text to: the first that equals it ignoring
\* case, else the first in a substring relation with it, 0 when none
C8_Resolved(opts, t) ==
    LET exact == {k \in 1..Len(opts) : FoldText(opts[k]) = FoldText(t)}
        partial == {k \in 1..Len(opts) :
                       \/ IsPartOf(FoldText(opts[k]), FoldText(t))
                       \/ IsPartOf(FoldText(t), FoldText(opts[k]))}
    IN  IF exact # {} THEN CHOOSE k \in exact : \A j \in exact : k <= j
        ELSE IF partial # {} THEN CHOOSE k \in partial : \A j \in partial : k <= j
        ELSE 0

\* C8: an answer with no letter notation is resolved against the option
\* texts.
C8_TextFallback ==
    (/\ Returned
     /\ AnswerLetter(Residual) = <<>>
     /\ C8_AnswerText(Residual) # <<>>
     /\ C8_Resolved(options, C8_AnswerText(Residual)) # 0)
        => question.answer = C8_Resolved(options, C8_AnswerText(Residual))

\* C9: when no answer notation matches, the answer of the record is no
\* valid 1-based option index.
C9_SentinelAnswer ==
    Returned /\ AnswerLetter(Residual) = <<>>
        => question.answer \notin 1..question.option_count

\* C10: every option of every returned record is a non-empty string.
C10_OptionsNonEmpty ==
    Returned
        => \A k \in 1..Len(question.options) : question.options[k] # <<>>

\* the explanation as captured from the residual text and cleaned of its
\* images and markdown markers, and its lines that are not blank
Captured == Clean(RawExplanation(Residual))
CapturedLines == SelectSeq(SplitLines(Captured), LAMBDA l : Strip(l) # <<>>)

\* the lines ls, runs of white space made one space, with a backslash and
\* the letter n between each two
RECURSIVE C11_Broken(_)
C11_Broken(ls) ==
    IF ls = <<>> THEN <<>>
    ELSE IF Len(ls) = 1 THEN Join(SplitWords(ls[1]), <<SP>>)
    ELSE Join(SplitWords(ls[1]), <<SP>>) \o <<BS, "n">> \o C11_Broken(Tail(ls))

\* C11: the explanation of a returned record holds no line break: it is the
\* non-blank lines of the captured explanation in their order, one break
\* token (backslash, n) between each two.
C11_BreakTokens ==
    Returned
        => /\ \A k \in 1..Len(question.explanation) :
                 question.explanation[k] # NL
           /\ question.explanation = C11_Broken(CapturedLines)

\* an explanation of two lines with a blank line between them
C11_Witness ==
    /\ Returned
    /\ Len(CapturedLines) = 2
    /\ Len(SplitLines(Captured)) = 3
    /\ \E k \in 2..Len(question.explanation) :
          question.explanation[k - 1] = BS /\ question.explanation[k] = "n"

\* the explanation column of the last row of the CSV file
ExplanationField == reader(csv[Len(csv)])[13]

\* C12: once fix_csv_newlines has turned the break tokens of the written
\* explanation back into line breaks, its lines are the non-blank lines of
\* the captured explanation: as many, in the same order, with the same
\* content (runs of white space counted as one space).
C12_RoundTrip ==
    pc = "fixed" /\ questions # <<>> /\ CapturedLines # <<>>
        => SplitLines(ExplanationField)
             = [k \in 1..Len(CapturedLines) |->
                   Join(SplitWords(CapturedLines[k]), <<SP>>)]

\* the residual text holds no Solution or Explanation marker
C13_NoMarker ==
    \A k \in 1..Len(Residual) :
        Fold(Residual[k]) \notin {"solution", "explanation"}

\* the first word answer of the residual text, 0 if there is none
C13_AnswerAt == First(LAMBDA k : IsAnswerWord(Residual[k]), 1, Len(Residual))

\* C13: without a Solution or Explanation marker the explanation is the
\* text after the first word answer of the residual text, and it is empty
\* when the residual text has no such word either.
C13_AfterAnswer ==
    Returned /\ C13_NoMarker
        => question.explanation =
             IF C13_AnswerAt = 0 THEN <<>>
             ELSE C11_Broken(SelectSeq(
                     SplitLines(Clean(Strip(From(Residual, C13_AnswerAt + 1)))),
                     LAMBDA l : Strip(l) # <<>>))

\* C14: a document that ends with a bare question number gives the same
\* records as the document without that last line.
C14_TrailingDropped == Done /\ Len(files) = 2 => results[2] = results[1]

\* the text holds an inline base64 image
ImageIn(text) == ReSearch(ImageEnd, text, 1) # 0

\* the question lines of the returned record, as they stand in the block
QuestionSource == Join(question_lines, <<SP>>)

\* the blocks of the file that are handed to parse_single_question
ParsedBlocks == {k \in 1..Len(parts) : ~Skipped(parts[k])}

\* C15: when the upload of an image of the question fails, the image is
\* gone from the question text of the record, that text is not empty, and
\* every block of the document that is parsed gives its record.
C15_FailedUpload ==
    /\ Returned /\ ~upload_ok /\ ImageIn(QuestionSource)
          => ~ImageIn(question.question) /\ question.question # <<>>
    /\ pc = "write" /\ ~upload_ok
          => Len(questions) = Cardinality(ParsedBlocks)

\* C16: when the upload of an image of the question succeeds, the question
\* text of the record holds the URL that the collaborator returned.
C16_UploadedUrl ==
    Returned /\ upload_ok /\ ImageIn(QuestionSource)
        => \E k \in 1..Len(question.question) :
              question.question[k] = "http://u"

\* main has written the CSV file of the records Written
CsvWritten == pc = "open" /\ f > 1
Written == results[f - 1]

\* the columns of the header row that are named Options and a number
OptionColumns ==
    {j \in 1..Len(headers) : Len(headers[j]) = 2 /\ headers[j][1] = "Options"}

\* C17: the file is the header row and then one row for each record, in
\* the order of the records; each row has as many fields as the header
\* row, and its four option fields are the first four options of the
\* record in their order, then empty strings.
C17_Rows ==
    CsvWritten
        => /\ Len(csv) = Len(Written) + 1
           /\ reader(csv[1]) = headers
           /\ Cardinality(OptionColumns) = 4
           /\ \A k \in 1..Len(Written) :
                 LET row == reader(csv[k + 1])
                     opts == Written[k].options
                 IN  /\ Len(row) = Len(headers)
                     /\ row[2] = Written[k].question
                     /\ row[13] = Written[k].explanation
                     /\ \A j \in 1..4 :
                           row[3 + j] = IF j <= Len(opts) THEN opts[j] ELSE <<>>

\* a file of two records, the first with five options and the second with
\* one
C17_Witness ==
    /\ CsvWritten
    /\ Len(Written) = 2
    /\ Written[1].option_count = 5
    /\ Written[2].option_count = 1
    /\ Len(csv) = 3

\* the fields of the row text s from position a on, as they are written
RECURSIVE RawFields(_, _)
RawFields(s, a) ==
    LET c == IF a <= Len(s) /\ s[a] = QT THEN ClosingQuote(s, a) ELSE 0
        e == Find(s, IF c # 0 THEN c + 1 ELSE a, ",")
    IN  <<Slice(s, a, e - 1)>>
        \o (IF e <= Len(s) THEN RawFields(s, e + 1) ELSE <<>>)

IsQuoted(raw) == Len(raw) >= 2 /\ raw[1] = QT /\ raw[Len(raw)] = QT

HasBreakToken(field) == \E k \in 1..Len(field) : At(field, k, BreakToken)

MustBeQuoted(field) ==
    \/ \E k \in 1..Len(field) : field[k] \in {",", QT}
    \/ HasBreakToken(field)

\* C18: in every row written, each field that holds a comma, a quote
\* character or a break token is written quoted, and the row read back has
\* the fields that were written.
C18_StrictQuoting ==
    CsvWritten
        => \A k \in 1..Len(Written) :
             LET fields == Row(Written[k])
                 raw == RawFields(csv[k + 1], 1)
             IN  /\ reader(csv[k + 1]) = fields
                 /\ Len(raw) = Len(fields)
                 /\ \A j \in 1..Len(fields) :
                       MustBeQuoted(fields[j]) => IsQuoted(raw[j])

\* the same without the break token: fields with a comma or a quote
\* character are quoted and the row reads back as written
C18_MinimalQuoting ==
    CsvWritten
        => \A k \in 1..Len(Written) :
             LET fields == Row(Written[k])
                 raw == RawFields(csv[k + 1], 1)
             IN  /\ reader(csv[k + 1]) = fields
                 /\ Len(raw) = Len(fields)
                 /\ \A j \in 1..Len(fields) :
                       (\E m \in 1..Len(fields[j]) : fields[j][m] \in {",", QT})
                           => IsQuoted(raw[j])

\* the record q has its question text from the block part
TakenFrom(q, part) ==
    q.question # <<>> /\ \E a \in 1..Len(part) : At(part, a, q.question)

\* C19: the records of a document are in the order of their blocks: of two
\* records, the earlier one comes from a block that is earlier in the text.
C19_BlockOrder ==
    \A a, b \in 1..Len(questions) :
        a < b => \E m, n \in 1..Len(parts) :
                    /\ m < n
                    /\ TakenFrom(questions[a], parts[m])
                    /\ TakenFrom(questions[b], parts[n])
                    /\ \A x \in 1..Len(parts) :
                          /\ TakenFrom(questions[a], parts[x]) => x = m
                          /\ TakenFrom(questions[b], parts[x]) => x = n

\* three records are returned for a document of three questions, not in
\* the order of their numbers, and a section header
C19_Witness ==
    /\ pc = "write"
    /\ Len(questions) = 3
    /\ \E x \in 2..Len(parts) : Skipped(parts[x])
    /\ questions[1].question = <<"What", SP, "is", SP, "2", "?">>
    /\ questions[3].question = <<"What", SP, "is", SP, "1", "?">>

BatchReturned == batch_pc = "returned"

\* the files of the batch whose task ended with the result of a success
Succeeded == {k \in 1..Len(tasks) : tasks[k].result.success}

\* C20: process_batch attempts every file of the batch even when some
\* fail, with one worker and with several: every batch that is started
\* returns; by then every file has been processed to its end, and
\* successful + failed = total_files = the number of files, where
\* successful counts the files that succeeded.
C20_EveryFileAttempted ==
    /\ [](BatchReturned
            => /\ \A k \in 1..Len(batch_files) : tasks[k].status = "returned"
               /\ Len(tasks) = Len(batch_files)
               /\ pipeline_result[1].total_files = Len(batch_files)
               /\ pipeline_result[1].successful + pipeline_result[1].failed
                     = pipeline_result[1].total_files
               /\ pipeline_result[1].successful = Cardinality(Succeeded))
    /\ (batch_pc = "run" ~> BatchReturned)

\* a batch of one worker has returned whose first file failed and whose
\* later files were processed, one of them with success
C20_Witness ==
    /\ BatchReturned
    /\ parallel_workers = 1
    /\ Len(batch_files) = MaxFiles
    /\ ~tasks[1].result.success
    /\ tasks[2].result.success
    /\ pipeline_result[1].failed >= 1
    /\ pipeline_result[1].successful >= 1

\* the same with several workers
C20_WitnessParallel ==
    /\ BatchReturned
    /\ parallel_workers > 1
    /\ Len(batch_files) = MaxFiles
    /\ ~tasks[1].result.success
    /\ tasks[2].result.success

\* a line of the block read before the line of this turn starts an answer
\* or explanation marker
MarkerReached == \E k \in 1..i : IsTerminator(Strip(lines[k]))

\* a step of the two loops over the lines of a block
ForwardStep ==
    pc \in {"question", "options"}
        => /\ i' \in {i, i + 1}
           /\ (pc = "question" => pc' \in {"question", "options"})
           /\ (pc = "options" => pc' \in {"options", "residual"})
           /\ (MarkerReached
                 => question_lines' = question_lines /\ options' = options)

\* C21: the block parser only moves forward: the lines are read in their
\* order, the question text is followed by the options and the options by
\* the residual text, and once a line that starts an answer or explanation
\* marker has been read no later line is added to the question text or to
\* the options.
C21_ForwardOnly == [][ForwardStep]_vars

\* a marker that is met while the options are read ends the options
MarkerStep ==
    (pc = "options" /\ i < Len(lines) /\ IsTerminator(Strip(lines[i + 1])))
        => (pc' = "residual" /\ i' = i /\ options' = options)

C21_OptionsEndAtMarker == [][MarkerStep]_vars

\* an option line, in one of the three notations, that also carries the
\* answer marker
IsCombinedLine(line) ==
    IsOptionLine(line) /\ ~IsTerminator(line) /\ CarriesAnswer(line)

\* the step of the options loop on a line that is an option and carries
\* the answer marker
CombinedStep ==
    (pc = "options" /\ i < Len(lines) /\ IsCombinedLine(Strip(lines[i + 1])))
        => /\ Len(options') = Len(options) + 1
           /\ SubSeq(options', 1, Len(options)) = options
           /\ \A a \in 1..Len(options'[Len(options')]) :
                 /\ options'[Len(options')][a] # "*"
                 /\ ~IsAnswerWord(options'[Len(options')][a])
           /\ pc' = "residual"
           /\ i' = i
           /\ AnswerLetter(Strip(lines[i + 1])) # <<>>
           /\ AnswerIndex(RemainingContent(lines, i'))
                 = AnswerIndex(Strip(lines[i + 1]))

\* C22: an option line that also carries the answer marker, in the plain,
\* the bold or the equals notation, adds one option, the text before the
\* marker without the marker, and stays in the residual text, from which
\* its answer is resolved.
C22_CombinedLine == [][CombinedStep]_vars

\* the same for the plain and the equals notation only
CombinedStepNotBold ==
    ~BoldMarker(Strip(lines[i + 1])) => CombinedStep

C22_CombinedNotBold == [][pc = "options" /\ i < Len(lines) => CombinedStepNotBold]_vars

\* the line opens, after bold, underscore or header characters, with the
\* word Answer, Solution or Explanation
OpensWithMarkerWord(line) ==
    LET a == First(LAMBDA k : line[k] \notin {"*", "_", "#", SP}, 1, Len(line))
    IN  a # 0 /\ (IsAnswerWord(line[a]) \/ IsSolutionWord(line[a])
                     \/ Fold(line[a]) = "explanation")

\* the options loop is at a non-empty line after an option that is neither
\* an option line nor an answer or explanation marker line
AtPlainLine ==
    /\ pc = "options"
    /\ i < Len(lines)
    /\ options # <<>>
    /\ Strip(lines[i + 1]) # <<>>
    /\ ~LooksLikeOption(Strip(lines[i + 1]))
    /\ ~IsOptionLine(Strip(lines[i + 1]))
    /\ ~IsTerminator(Strip(lines[i + 1]))
    /\ ~OpensWithMarkerWord(Strip(lines[i + 1]))

\* the last option with the line joined to it by one space
Continued(line) ==
    [options EXCEPT ![Len(options)] = @ \o <<SP>> \o Clean(line)]

\* the claim as it is stated: every such line is appended to the last
\* option with one space
C23_Original ==
    [][AtPlainLine
         => options' = Continued(Strip(lines[i + 1])) /\ i' = i + 1]_vars

\* the lines of AtPlainLine that are kept: those that do not begin with
\* two stars and do not hold the word answer
IsKept(line) ==
    /\ ~At(line, 1, <<"*", "*">>)
    /\ \A a \in 1..Len(line) : ~IsAnswerWord(line[a])

ContinuationStep ==
    AtPlainLine
        => /\ i' = i + 1
           /\ pc' = "options"
           /\ Len(options') = Len(options)
           /\ \A k \in 1..(Len(options) - 1) : options'[k] = options[k]
           /\ options' = IF IsKept(Strip(lines[i + 1]))
                          THEN Continued(Strip(lines[i + 1]))
                          ELSE options

\* C23: in the options loop a non-empty line after an option that is
\* neither an option line nor a marker line is appended, without its
\* markdown, to the last option with one joining space, unless it begins
\* with two stars or holds the word answer, in which case it is dropped;
\* the number and the order of the options do not change.
C23_Continuation == [][ContinuationStep]_vars

\* a record whose first option took a line of text, while a line that
\* begins with two stars was dropped, and whose second option follows
C23_Witness ==
    /\ Returned
    /\ question.options = <<<<"3", SP, "The", SP, SP, "sequence">>, <<"4">>>>
    /\ \E k \in 1..Len(lines) : lines[k] = LineBoldText

\* C24: the option text of an option line is the text after its marker,
\* without the letter marker and without bold characters, in every
\* notation: each of the lines 'A. 3', '**A.** 3', '**A. 3' and 'A = 3'
\* records the option text '3'.
C24_SameOptionText ==
    \A k \in 1..Len(options) : options[k] = <<"3">>

\* the plain and the half bold notation record the text after the marker
C24_PlainAndHalfBold ==
    \A k \in 1..Len(options) :
        options[k] = <<"3">>
        \/ Strip(lines[k + 1]) \in {LineBoldOption, LineEqualsOption}

\* C25: a question is parsed the same whichever form of number opens it:
\* the blocks '12. Q', '**12.** Q', '12\. Q' and '### 12. Q' give the same
\* record, whose question text is Q.
C25_SameRecord ==
    Done => \A k \in 1..Len(files) :
               /\ results[k] = results[1]
               /\ Len(results[k]) = 1
               /\ At(results[k][1].question, 1, QuestionBody)

\* the same for the plain, the bold and the escaped form
C25_ThreeForms ==
    Done => \A k \in 1..3 :
               /\ results[k] = results[1]
               /\ Len(results[k]) = 1
               /\ At(results[k][1].question, 1, QuestionBody)

\* C26: Explanation and Solution markers are interchangeable: with the
\* word Solution replaced by Explanation, in the bold and the plain
\* notation, with or without a colon, a block gives the same record.
C26_Interchangeable ==
    Done /\ Len(files) = 2 => results[2] = results[1]

\* the same for the markers that have a colon
C26_WithColon ==
    (/\ Done
     /\ Len(files) = 2
     /\ \A k \in 1..Len(SplitLines(files[1])) :
           SplitLines(files[1])[k]
               \notin {LineBoldSolutionNoColon, LinePlainSolutionNoColon})
        => results[2] = results[1]

\* C27: every record of parse_questions_from_file has a question text
\* that is not empty; a block that gives no question text gives no record.
C27_QuestionNonEmpty ==
    \A k \in 1..Len(questions) : questions[k].question # <<>>

RetryEnded == retry_pc \in {"returned", "raised"}

\* what holds of execute in every state
RetryState ==
    /\ invocations <= max_retries + 1
    /\ retry_pc = "try" => last_error.class \in {"None", "RetryableError"}
    /\ retry_pc = "returned"
         => /\ outcome.class = "Result"
            /\ outcome.invocation = invocations
            /\ invocations > 1 => /\ last_error.class = "RetryableError"
                                   /\ last_error.invocation = invocations - 1
    /\ retry_pc = "raised"
         => /\ outcome.class \in ErrorClasses
            /\ outcome.invocation = invocations
            /\ outcome.class = "RetryableError"
                  => invocations = max_retries + 1

\* C28: execute invokes func at most max_retries + 1 times and ends: it
\* returns the result of the first invocation that succeeds, or raises the
\* error of its last invocation, at once when the error is not a
\* RetryableError and after max_retries + 1 invocations when every
\* invocation raised a RetryableError; it invokes nothing after that.
C28_BoundedRetry ==
    /\ []RetryState
    /\ [][RetryEnded => invocations' = invocations]_vars
    /\ (retry_pc = "try" ~> RetryEnded)

\* execute returns the result of the last attempt that it may make, after
\* errors that asked for a wait
C28_Witness ==
    /\ retry_pc = "returned"
    /\ max_retries >= 2
    /\ invocations = max_retries + 1
    /\ last_error.retry_after > 0

\* execute raises the RetryableError of its last invocation
C28_WitnessRaised ==
    /\ retry_pc = "raised"
    /\ max_retries >= 2
    /\ outcome.class = "RetryableError"
    /\ invocations = max_retries + 1

\* C29: a RateLimitError of convert is retried while attempts remain:
\* execute raises it only after max_retries + 1 invocations.
C29_RateLimitRetried ==
    retry_pc = "raised" /\ outcome.class = "RateLimitError"
        => invocations = max_retries + 1

\* C30: in every row written for a record, the Answer field names one of
\* the four option fields of the row, and that field is not empty.
C30_AnswerDesignatesOption ==
    CsvWritten
        => \A k \in 1..Len(Written) :
             LET row == reader(csv[k + 1])
             IN  \E a \in 1..4 : row[8] = Str(a) /\ row[3 + a] # <<>>

============================================================================
